---------------------------- MODULE Spec2Model ----------------------------
(***************************************************************************)
(* A state-machine model of Firmament's CPU/memory cost model              *)
(* (src/src/scheduling/flow/cpu_cost_model.cc): the equivalence-class      *)
(* registry, the per-round preference-arc computation with its hard and    *)
(* soft (affinity) constraints, the arc pricing and the statistics pass.   *)
(***************************************************************************)
EXTENDS Integers, Sequences, FiniteSets, TLC

(***************************************************************************)
(* Bounds of the model and program constants.                              *)
(***************************************************************************)
\* largest max_pods a machine descriptor is given
MaxPods == 2
\* largest cpu / ram request of a task
MaxReq == 2
\* largest cpu / ram capacity unit of a PU / machine sample
MaxCap == 4

\* omega_, the scale of every cost dimension (cpu_cost_model.h)
omega_ == 1000
\* CpuMemCostVector_t::dimensions_ (cpu_cost_model.h)
dimensions_ == 4
\* the "not set" value of final_score, min_score and max_score
UNSET == -1
\* the fixed cost of a task -> unscheduled aggregator arc
UnschedCost == 2560000

(***************************************************************************)
(* The cluster the cost model is run against: two machines, the second     *)
(* with two processing units.  The topology (type, parent, friendly name)  *)
(* is fixed; the descriptors' mutable fields live in resource_map.         *)
(***************************************************************************)
Machines == {"m1", "m2"}
PUs == {"m1p0", "m2p0", "m2p1"}
Resources == Machines \cup PUs
Tasks == {"t1", "t2", "t3", "t4"}
Namespaces == {"ns1", "ns2"}

ResType(r) == IF r \in Machines THEN "MACHINE" ELSE "PU"

ParentOf(r) ==
  CASE r = "m1p0" -> "m1"
    [] r = "m2p0" -> "m2"
    [] r = "m2p1" -> "m2"
    [] OTHER -> ""

FriendlyName(r) ==
  CASE r = "m1" -> "node1"
    [] r = "m2" -> "node2"
    [] r = "m1p0" -> "PU #0"
    [] r = "m2p0" -> "PU #0"
    [] r = "m2p1" -> "PU #1"
    [] OTHER -> ""

\* the core id parsed from "PU #<n>"
CoreIdOf(r) == IF r = "m2p1" THEN 1 ELSE 0

PUsOf(m) == {p \in PUs : ParentOf(p) = m}

VARIABLES
  \* ---- members of CpuCostModel
  ecs_for_machines_,           \* machine -> sequence of machine-ECs
  ec_to_machine_,              \* machine-EC -> machine
  ec_to_index_,                \* machine-EC -> slot index
  task_resource_requirement_,  \* task -> request
  ec_resource_requirement_,    \* task-EC -> request
  ec_to_td_requirements,       \* task-EC -> copy of a task descriptor
  ec_to_node_priority_scores,  \* task-EC -> machine -> PriorityScoresList_t
  ec_to_max_min_priority_scores, \* task-EC -> MinMaxScores_t
  namespaces,                  \* the namespaces HasNamespace admits
  infinity_,
  \* ---- the collaborators the cost model reads
  resource_map,                \* resource -> descriptor
  task_map,                    \* task -> descriptor
  labels_map,                  \* key -> value -> sequence of tasks
  knowledge_base,              \* machine -> latest sample, or NoSample
  \* ---- what the caller observes
  fatal,                       \* a CHECK / LOG(FATAL) ended the process
  last_call,                   \* the last operation and what it returned
  round                        \* what the current round has listed so far

cm_vars == <<ecs_for_machines_, ec_to_machine_, ec_to_index_,
             task_resource_requirement_, ec_resource_requirement_,
             ec_to_td_requirements, ec_to_node_priority_scores,
             ec_to_max_min_priority_scores, namespaces, infinity_>>
registry_vars == <<ecs_for_machines_, ec_to_machine_, ec_to_index_,
                   task_resource_requirement_, ec_resource_requirement_,
                   ec_to_td_requirements>>
machine_registry_vars == <<ecs_for_machines_, ec_to_machine_, ec_to_index_>>
task_registry_vars == <<task_resource_requirement_, ec_resource_requirement_,
                        ec_to_td_requirements>>
score_vars == <<ec_to_node_priority_scores, ec_to_max_min_priority_scores,
                namespaces>>
env_vars == <<resource_map, task_map, labels_map, knowledge_base>>
vars == <<cm_vars, env_vars, fatal, last_call, round>>

(***************************************************************************)
(* Map helpers (misc/map-util.h).                                          *)
(***************************************************************************)
EmptyMap == [x \in {} |-> 0]

Put(f, k, v) == [x \in (DOMAIN f) \cup {k} |-> IF x = k THEN v ELSE f[x]]

\* an insert that replaces the value of a key the map holds
InsertOverwrites(f, k, v) ==
  [x \in (DOMAIN f) \cup {k} |-> IF x = k THEN v ELSE f[x]]

InsertIfNotPresent(f, k, v) == IF k \in DOMAIN f THEN f ELSE Put(f, k, v)

Erase(f, k) == [x \in (DOMAIN f) \ {k} |-> f[x]]

Min(S) == CHOOSE x \in S : \A y \in S : x <= y

\* C++ integer division and float -> integer conversion truncate toward zero
TruncDiv(a, b) ==
  IF (a >= 0) = (b > 0) THEN (IF a >= 0 THEN a ELSE -a) \div (IF b > 0 THEN b ELSE -b)
  ELSE -((IF a >= 0 THEN a ELSE -a) \div (IF b > 0 THEN b ELSE -b))

(***************************************************************************)
(* Equivalence-class identifiers.  The 64-bit hashes are taken as          *)
(* collision-free: an id is the tuple of what the code hashes.             *)
(***************************************************************************)
GetMachineEC(machine_name, ec_index) == <<"machine", machine_name, ec_index, 0>>

JobEC(job) == <<"job", job, 0, 0>>
SelectorsEC(sel, cpu, ram) == <<"selectors", sel, cpu, ram>>
RequestEC(cpu, ram) == <<"request", "", cpu, ram>>

\* pre is <<the registry before the call>> where a later call is compared
\* with it, and <<>> otherwise
Call(op, arg, ret, pre) == [op |-> op, arg |-> arg, ret |-> ret, pre |-> pre]
NoCall == Call("", <<>>, <<>>, <<>>)


(***************************************************************************)
(* The resource tree: which machine a resource belongs to.                 *)
(***************************************************************************)
RECURSIVE MachineResIDForResource(_)
MachineResIDForResource(res_id) ==
  IF ResType(res_id) = "MACHINE" THEN res_id
  ELSE MachineResIDForResource(ParentOf(res_id))

(***************************************************************************)
(* Label selector requirements.  An expression is                          *)
(* [key, operator_, values]; values is a sequence as in the protobuf.      *)
(***************************************************************************)
SeqRange(s) == {s[i] : i \in 1..Len(s)}

Expr(key, op, values) == [key |-> key, operator_ |-> op, values |-> values]

\* ---- node side (scheduling/label_utils.cc): machine labels are a set of
\* <<key, value>> pairs of the machine's descriptor
NodeMatchesExpression(rd, e) ==
  CASE e.operator_ = "In" ->
         \E v \in SeqRange(e.values) : <<e.key, v>> \in rd.labels
    [] e.operator_ = "NotIn" ->
         ~ \E v \in SeqRange(e.values) : <<e.key, v>> \in rd.labels
    [] e.operator_ = "Exists" -> \E l \in rd.labels : l[1] = e.key
    [] e.operator_ = "DoesNotExist" -> ~ \E l \in rd.labels : l[1] = e.key
    [] OTHER -> FALSE

\* a node selector term holds iff every match expression holds
NodeMatchesNodeSelectorTerm(rd, term) ==
  \A i \in 1..Len(term.matchexpressions) :
    NodeMatchesExpression(rd, term.matchexpressions[i])

\* node selector: every selector of the task; required node affinity: any term
SatisfiesNodeSelectorAndNodeAffinity(rd, td) ==
  /\ \A i \in 1..Len(td.label_selectors) :
       NodeMatchesExpression(rd, td.label_selectors[i])
  /\ \/ ~td.has_affinity
     \/ td.affinity.node_required = <<>>
     \/ \E i \in 1..Len(td.affinity.node_required) :
          NodeMatchesNodeSelectorTerm(rd, td.affinity.node_required[i])

(***************************************************************************)
(* Pod side.  tm is the task map, lm the label index, nss the namespaces   *)
(* set, m the machine of the descriptor rd the code is handed.             *)
(***************************************************************************)
HasNamespace(nss, name) == name \in nss

\* the tasks the label index lists under key for one of the values
TasksWithLabel(lm, e) ==
  IF e.key \notin DOMAIN lm THEN {}
  ELSE UNION {SeqRange(lm[e.key][v]) :
                v \in SeqRange(e.values) \cap DOMAIN lm[e.key]}

\* the tasks the label index lists under key, whatever the value
TasksWithKey(lm, e) ==
  IF e.key \notin DOMAIN lm THEN {}
  ELSE UNION {SeqRange(lm[e.key][v]) : v \in DOMAIN lm[e.key]}

\* tdp->state() == RUNNING and the task's PU belongs to the machine
RunningOnMachine(tm, task_id, m) ==
  /\ tm[task_id].state = "RUNNING"
  /\ MachineResIDForResource(tm[task_id].scheduled_to_resource) = m

MatchExpressionWithPodLabels(tm, lm, nss, m, e) ==
  \E task_id \in TasksWithLabel(lm, e) \cap DOMAIN tm :
    /\ HasNamespace(nss, tm[task_id].task_namespace)
    /\ RunningOnMachine(tm, task_id, m)

\* returns false at the first listed RUNNING task on the machine (its
\* namespace is not looked at); otherwise true iff some listed task, RUNNING
\* or not, is in an admitted namespace
NotMatchExpressionWithPodLabels(tm, lm, nss, m, e) ==
  /\ ~ \E task_id \in TasksWithLabel(lm, e) \cap DOMAIN tm :
         RunningOnMachine(tm, task_id, m)
  /\ \E task_id \in TasksWithLabel(lm, e) \cap DOMAIN tm :
       HasNamespace(nss, tm[task_id].task_namespace)

MatchExpressionKeyWithPodLabels(tm, lm, nss, m, e) ==
  \E task_id \in TasksWithKey(lm, e) \cap DOMAIN tm :
    /\ HasNamespace(nss, tm[task_id].task_namespace)
    /\ RunningOnMachine(tm, task_id, m)

NotMatchExpressionKeyWithPodLabels(tm, lm, nss, m, e) ==
  /\ ~ \E task_id \in TasksWithKey(lm, e) \cap DOMAIN tm :
         RunningOnMachine(tm, task_id, m)
  /\ \E task_id \in TasksWithKey(lm, e) \cap DOMAIN tm :
       HasNamespace(nss, tm[task_id].task_namespace)

SatisfiesPodAffinityMatchExpression(tm, lm, nss, m, e) ==
  CASE e.operator_ = "In" -> MatchExpressionWithPodLabels(tm, lm, nss, m, e)
    [] e.operator_ = "NotIn" ->
         NotMatchExpressionWithPodLabels(tm, lm, nss, m, e)
    [] e.operator_ = "Exists" ->
         MatchExpressionKeyWithPodLabels(tm, lm, nss, m, e)
    [] e.operator_ = "DoesNotExist" ->
         NotMatchExpressionKeyWithPodLabels(tm, lm, nss, m, e)
    [] OTHER -> FALSE

SatisfiesPodAntiAffinityMatchExpression(tm, lm, nss, m, e) ==
  CASE e.operator_ = "In" -> ~MatchExpressionWithPodLabels(tm, lm, nss, m, e)
    [] e.operator_ = "NotIn" ->
         ~NotMatchExpressionWithPodLabels(tm, lm, nss, m, e)
    [] e.operator_ = "Exists" ->
         ~MatchExpressionKeyWithPodLabels(tm, lm, nss, m, e)
    [] e.operator_ = "DoesNotExist" ->
         ~NotMatchExpressionKeyWithPodLabels(tm, lm, nss, m, e)
    [] OTHER -> FALSE

SatisfiesPodAffinityMatchExpressions(tm, lm, nss, m, exprs) ==
  \A i \in 1..Len(exprs) :
    SatisfiesPodAffinityMatchExpression(tm, lm, nss, m, exprs[i])

SatisfiesPodAntiAffinityMatchExpressions(tm, lm, nss, m, exprs) ==
  \A i \in 1..Len(exprs) :
    SatisfiesPodAntiAffinityMatchExpression(tm, lm, nss, m, exprs[i])

(***************************************************************************)
(* Terms.  Evaluating a term inserts into the member set namespaces, so    *)
(* the evaluators thread it: they take                                     *)
(* ns = [nss |-> the set, log |-> the terms evaluated so far] and return   *)
(* [sat, nss, log].  A log entry records one term evaluation: the          *)
(* namespaces the term names (or the task's own), the set that             *)
(* HasNamespace admitted while the term's expressions were matched, the    *)
(* machine, the expressions, which of the two evaluators ran and what it   *)
(* returned.                                                               *)
(* An intermediate result r == e that several places use is bound as       *)
(* CHOOSE out \in {body : r \in {e}} : TRUE, which evaluates e once.        *)
(***************************************************************************)
Term(nspaces, exprs) == [namespaces |-> nspaces, matchexpressions |-> exprs]

\* the names the term inserts: the task's namespace when it lists none
TermNamespaces(td, term) ==
  IF term.namespaces = {} THEN {td.task_namespace} ELSE term.namespaces

LogEntry(td, term, nss, m, anti, sat) ==
  [named |-> TermNamespaces(td, term), admitted |-> nss, machine |-> m,
   matchexpressions |-> term.matchexpressions, anti |-> anti, sat |-> sat]

SatisfiesPodAntiAffinityTerm(tm, lm, ns, m, td, term) ==
  LET nss == ns.nss \cup TermNamespaces(td, term)
      sat == SatisfiesPodAntiAffinityMatchExpressions(
               tm, lm, nss, m, term.matchexpressions)
  IN [sat |-> sat, nss |-> nss,
      log |-> ns.log \cup {LogEntry(td, term, nss, m, TRUE, sat)}]

SatisfiesPodAffinityTerm(tm, lm, ns, m, td, term) ==
  LET nss == ns.nss \cup TermNamespaces(td, term)
      sat == SatisfiesPodAffinityMatchExpressions(
               tm, lm, nss, m, term.matchexpressions)
  IN [sat |-> sat, nss |-> nss,
      log |-> ns.log \cup {LogEntry(td, term, nss, m, FALSE, sat)}]

RECURSIVE SatisfiesPodAntiAffinityTerms(_, _, _, _, _, _)
SatisfiesPodAntiAffinityTerms(tm, lm, ns, m, td, terms) ==
  IF terms = <<>> THEN [sat |-> TRUE, nss |-> ns.nss, log |-> ns.log]
  ELSE CHOOSE out \in
         {IF ~r.sat THEN r
          ELSE SatisfiesPodAntiAffinityTerms(tm, lm, r, m, td, Tail(terms)) :
            r \in {SatisfiesPodAntiAffinityTerm(tm, lm, ns, m, td, Head(terms))}} :
         TRUE

RECURSIVE SatisfiesPodAffinityTerms(_, _, _, _, _, _)
SatisfiesPodAffinityTerms(tm, lm, ns, m, td, terms) ==
  IF terms = <<>> THEN [sat |-> TRUE, nss |-> ns.nss, log |-> ns.log]
  ELSE CHOOSE out \in
         {IF ~r.sat THEN r
          ELSE SatisfiesPodAffinityTerms(tm, lm, r, m, td, Tail(terms)) :
            r \in {SatisfiesPodAffinityTerm(tm, lm, ns, m, td, Head(terms))}} :
         TRUE

\* hard constraint: required anti-affinity terms, then required affinity terms
SatisfiesPodAffinityAntiAffinityRequired(tm, lm, ns, m, td) ==
  IF ~td.has_affinity THEN [sat |-> TRUE, nss |-> ns.nss, log |-> ns.log]
  ELSE CHOOSE out \in
         {IF ~a.sat THEN a
          ELSE SatisfiesPodAffinityTerms(
                 tm, lm, a, m, td, td.affinity.pod_required) :
            a \in {SatisfiesPodAntiAffinityTerms(
                     tm, lm, ns, m, td, td.affinity.anti_required)}} :
         TRUE


(***************************************************************************)
(* The priority scorer.  A scorer state is                                 *)
(* [nps |-> ec_to_node_priority_scores,                                    *)
(*  mm |-> ec_to_max_min_priority_scores, nss |-> namespaces, log].        *)
(***************************************************************************)
\* PriorityScore_t() and PriorityScoresList_t() (cpu_cost_model.h)
NewPriorityScore == [satisfy |-> TRUE, score |-> 0, final_score |-> UNSET]
NewPriorityScoresList ==
  [node_affinity_priority |-> NewPriorityScore,
   pod_affinity_priority |-> NewPriorityScore]

\* MinMaxScore_t() and MinMaxScores_t() (cpu_cost_model.h)
NewMinMaxScore == [min_score |-> UNSET, max_score |-> UNSET]
NewMinMaxScores ==
  [node_affinity_priority |-> NewMinMaxScore,
   pod_affinity_priority |-> NewMinMaxScore]

\* a weighted (preferred) term
Weighted(weight, term) == [weight |-> weight, term |-> term]

\* the weights of the preferred node-affinity terms the machine matches
RECURSIVE NodeAffinitySumOfWeights(_, _)
NodeAffinitySumOfWeights(rd, terms) ==
  IF terms = <<>> THEN 0
  ELSE (IF Head(terms).weight # 0
           /\ NodeMatchesNodeSelectorTerm(rd, Head(terms).term)
        THEN Head(terms).weight ELSE 0)
       + NodeAffinitySumOfWeights(rd, Tail(terms))

\* the record of (ec, machine), created with its defaults when absent
WithScoreRecord(nps, ec, m) ==
  LET nps1 == InsertIfNotPresent(nps, ec, EmptyMap) IN
  [nps1 EXCEPT ![ec] = InsertIfNotPresent(nps1[ec], m, NewPriorityScoresList)]

CalculatePrioritiesCost(rm, tds, st, ec, m) ==
  LET td == tds[ec] IN
  IF ~(td.has_affinity /\ td.affinity.node_preferred # <<>>) THEN st
  ELSE
    LET sum_of_weights == NodeAffinitySumOfWeights(rm[m], td.affinity.node_preferred)
        nps1 == WithScoreRecord(st.nps, ec, m)
        old == nps1[ec][m].node_affinity_priority
        flagged == IF sum_of_weights = 0 THEN [old EXCEPT !.satisfy = FALSE]
                   ELSE old
    IN IF ~flagged.satisfy
       THEN [st EXCEPT !.nps =
               [nps1 EXCEPT ![ec][m].node_affinity_priority = flagged]]
       ELSE
         LET mm1 == InsertIfNotPresent(st.mm, ec, NewMinMaxScores)
             cur == mm1[ec].node_affinity_priority.max_score
         IN [st EXCEPT
               !.nps = [nps1 EXCEPT ![ec][m].node_affinity_priority =
                          [flagged EXCEPT !.score = sum_of_weights]],
               !.mm = IF cur < sum_of_weights \/ cur = -1
                      THEN [mm1 EXCEPT
                              ![ec].node_affinity_priority.max_score =
                                sum_of_weights]
                      ELSE mm1]

\* the preferred terms' loop: [sum, nss, log]; a zero-weight term is skipped
\* before it is evaluated
RECURSIVE PodAntiAffinityPreferredSum(_, _, _, _, _, _)
PodAntiAffinityPreferredSum(tm, lm, ns, m, td, wterms) ==
  IF wterms = <<>> THEN [sum |-> 0, nss |-> ns.nss, log |-> ns.log]
  ELSE IF Head(wterms).weight = 0
       THEN PodAntiAffinityPreferredSum(tm, lm, ns, m, td, Tail(wterms))
       ELSE CHOOSE out \in
              {[PodAntiAffinityPreferredSum(tm, lm, r, m, td, Tail(wterms))
                  EXCEPT !.sum = @ + (IF r.sat THEN Head(wterms).weight ELSE 0)] :
                 r \in {SatisfiesPodAntiAffinityTerm(
                          tm, lm, ns, m, td, Head(wterms).term)}} :
              TRUE

RECURSIVE PodAffinityPreferredSum(_, _, _, _, _, _)
PodAffinityPreferredSum(tm, lm, ns, m, td, wterms) ==
  IF wterms = <<>> THEN [sum |-> 0, nss |-> ns.nss, log |-> ns.log]
  ELSE IF Head(wterms).weight = 0
       THEN PodAffinityPreferredSum(tm, lm, ns, m, td, Tail(wterms))
       ELSE CHOOSE out \in
              {[PodAffinityPreferredSum(tm, lm, r, m, td, Tail(wterms))
                  EXCEPT !.sum = @ + (IF r.sat THEN Head(wterms).weight ELSE 0)] :
                 r \in {SatisfiesPodAffinityTerm(
                          tm, lm, ns, m, td, Head(wterms).term)}} :
              TRUE

\* the two loops over the preferred terms, anti-affinity first:
\* [sum of the weights of the satisfied terms, nss, log]
PodPreferredSumOfWeights(tm, lm, ns, m, td) ==
  CHOOSE out \in
    {[PodAffinityPreferredSum(tm, lm, anti, m, td, td.affinity.pod_preferred)
        EXCEPT !.sum = @ + anti.sum] :
       anti \in {PodAntiAffinityPreferredSum(
                   tm, lm, ns, m, td, td.affinity.anti_preferred)}} :
    TRUE

\* the record and the min/max tracker of (ec, m) after the sum is known
WithPodPreference(st, ec, m, pref) ==
  LET sum_of_weights == pref.sum
      nps1 == WithScoreRecord(st.nps, ec, m)
      old == nps1[ec][m].pod_affinity_priority
      new == [old EXCEPT
                !.satisfy = IF sum_of_weights = 0 THEN FALSE ELSE @,
                !.score = sum_of_weights]
      mm1 == InsertIfNotPresent(st.mm, ec, NewMinMaxScores)
      cur == mm1[ec].pod_affinity_priority
  IN [st EXCEPT
        !.nps = [nps1 EXCEPT ![ec][m].pod_affinity_priority = new],
        !.mm = [mm1 EXCEPT ![ec].pod_affinity_priority =
                  [max_score |-> IF cur.max_score < sum_of_weights
                                    \/ cur.max_score = -1
                                 THEN sum_of_weights ELSE cur.max_score,
                   min_score |-> IF cur.min_score > sum_of_weights
                                    \/ cur.min_score = -1
                                 THEN sum_of_weights ELSE cur.min_score]],
        !.nss = pref.nss,
        !.log = pref.log]

CalculatePodAffinityAntiAffinityPreference(tm, lm, st, m, td, ec) ==
  IF ~td.has_affinity THEN st
  ELSE CHOOSE out \in
         {WithPodPreference(st, ec, m, pref) :
            pref \in {PodPreferredSumOfWeights(tm, lm, st, m, td)}} :
         TRUE

(***************************************************************************)
(* GetEquivClassToEquivClassesArcs: the preference list of a task-EC.      *)
(***************************************************************************)
\* static_cast<uint64_t> of the float cpu_cores, kept in hundredths of a core
CpuCoresU64(hundredths) == hundredths \div 100

\* the slot loop with strict comparisons: a slot is listed only while the
\* running total stays below what is available
RECURSIVE SlotLoopStrict(_, _, _, _, _, _, _)
SlotLoopStrict(cur_cpu, cur_ram, index, req, avail_cpu, avail_ram, size) ==
  IF cur_cpu < avail_cpu /\ cur_ram < avail_ram /\ index < size
  THEN SlotLoopStrict(cur_cpu + req.cpu_cores_, cur_ram + req.ram_cap_,
                      index + 1, req, avail_cpu, avail_ram, size)
  ELSE index

\* the slot loop: the index it stops at
RECURSIVE SlotLoop(_, _, _, _, _, _, _)
SlotLoop(cur_cpu, cur_ram, index, req, avail_cpu, avail_ram, size) ==
  IF cur_cpu <= avail_cpu /\ cur_ram <= avail_ram /\ index < size
  THEN SlotLoop(cur_cpu + req.cpu_cores_, cur_ram + req.ram_cap_, index + 1,
                req, avail_cpu, avail_ram, size)
  ELSE index

\* the machine-ECs one machine contributes
MachineSlots(rm, efm, req, m) ==
  LET n == SlotLoop(req.cpu_cores_, req.ram_cap_, 0, req,
                    CpuCoresU64(rm[m].avail_cpu), rm[m].avail_ram,
                    Len(efm[m]))
  IN SubSeq(efm[m], 1, n)

\* one iteration of the loop over ecs_for_machines_, from the pod
\* constraints on; s1 is the scorer state after CalculatePrioritiesCost
ListScoredMachine(rm, tm, lm, efm, ecr, tds, s1, ec, m) ==
  CHOOSE out \in
    {IF ~hard.sat THEN [s1 EXCEPT !.nss = hard.nss, !.log = hard.log]
     ELSE [CalculatePodAffinityAntiAffinityPreference(
             tm, lm, [s1 EXCEPT !.nss = hard.nss, !.log = hard.log], m,
             tds[ec], ec)
             EXCEPT !.pref_ecs = @ \o MachineSlots(rm, efm, ecr[ec], m)] :
       hard \in {SatisfiesPodAffinityAntiAffinityRequired(
                   tm, lm, s1, m, tds[ec])}} :
    TRUE

\* one iteration of the loop over ecs_for_machines_
ListMachine(rm, tm, lm, efm, ecr, tds, st, ec, m) ==
  IF ec \notin DOMAIN tds
  THEN [st EXCEPT !.pref_ecs = @ \o MachineSlots(rm, efm, ecr[ec], m)]
  ELSE IF ~SatisfiesNodeSelectorAndNodeAffinity(rm[m], tds[ec]) THEN st
  ELSE CHOOSE out \in
         {ListScoredMachine(rm, tm, lm, efm, ecr, tds, s1, ec, m) :
            s1 \in {CalculatePrioritiesCost(rm, tds, st, ec, m)}} :
         TRUE

RECURSIVE ListMachines(_, _, _, _, _, _, _, _, _)
ListMachines(rm, tm, lm, efm, ecr, tds, st, ec, order) ==
  IF order = <<>> THEN st
  ELSE CHOOSE out \in
         {ListMachines(rm, tm, lm, efm, ecr, tds, s, ec, Tail(order)) :
            s \in {ListMachine(rm, tm, lm, efm, ecr, tds, st, ec, Head(order))}} :
         TRUE

\* the whole call, for the machines of ecs_for_machines_ visited in `order`
PrefArcs(rm, tm, lm, efm, ecr, tds, nps, mm, nss, ec, order) ==
  IF ec \notin DOMAIN ecr
  THEN [nps |-> nps, mm |-> mm, nss |-> nss, log |-> {}, pref_ecs |-> <<>>]
  ELSE CHOOSE out \in
         {ListMachines(rm, tm, lm, efm, ecr, tds, st, ec, order) :
            st \in {[nps |-> EmptyMap, mm |-> mm, nss |-> nss, log |-> {},
                     pref_ecs |-> <<>>]}} :
         TRUE

\* the orders an unordered_map may be iterated in
Orders(S) ==
  {o \in [1..Cardinality(S) -> S] : \A i, j \in DOMAIN o : i # j => o[i] # o[j]}


(***************************************************************************)
(* EquivClassToEquivClass: the price of a task-EC -> machine-EC arc.       *)
(* Fractions are rationals here: a float quotient times omega_, truncated, *)
(* is TruncDiv(numerator * omega_, denominator).                           *)
(***************************************************************************)
ArcDescriptor(cost, capacity, lower) ==
  [cost |-> cost, capacity |-> capacity, lower_bound |-> lower]

\* the zero-capacity test asking for room for one more replica than the
\* slot's index
NextReplicaDoesNotFit(avail_cpu, avail_ram, req, ec_index) ==
  \/ avail_cpu < req.cpu_cores_ * (ec_index + 1)
  \/ avail_ram < req.ram_cap_ * (ec_index + 1)

\* the zero-capacity test of lines 135-137
SlotDoesNotFit(avail_cpu, avail_ram, req, ec_index) ==
  \/ avail_cpu < req.cpu_cores_ * ec_index
  \/ avail_ram < req.ram_cap_ * ec_index

\* least-requested and balanced-allocation dimensions for the post-admission
\* vector (post_cpu, post_ram) of a machine of capacity (cap_cpu, cap_ram).
\* The ram numerator is an unsigned difference: it wraps when post_ram
\* exceeds the capacity, and the conversion of the resulting fraction to
\* int64_t is out of range; wrapped carries that case.
ResourceCosts(cap_cpu, cap_ram, post_cpu, post_ram) ==
  LET a == cap_cpu - post_cpu
      b == cap_ram - post_ram
      cpu_cost == TruncDiv(a * omega_, cap_cpu)
      ram_cost == TruncDiv(b * omega_, cap_ram)
      \* variance of two fractions = ((a/c - b/d) / 2) ^ 2
      d == a * cap_ram - b * cap_cpu
  IN [wrapped |-> post_ram > cap_ram,
      cpu_mem_cost_ |-> TruncDiv(cpu_cost + ram_cost, 2),
      balanced_res_cost_ |->
        TruncDiv(d * d * omega_, 4 * cap_cpu * cap_cpu * cap_ram * cap_ram)]

HasNodePreferred(td) ==
  td.has_affinity /\ td.affinity.node_preferred # <<>>

HasPodPreferred(td) ==
  td.has_affinity /\ (td.affinity.pod_preferred # <<>>
                      \/ td.affinity.anti_preferred # <<>>)

\* a CHECK_NOTNULL of the affinity part fails
ScoreRecordMissing(tds, nps, mm, ec1, m) ==
  LET td == tds[ec1] IN
  \/ /\ HasNodePreferred(td)
     /\ \/ ec1 \notin DOMAIN nps
        \/ m \notin DOMAIN nps[ec1]
        \/ /\ nps[ec1][m].node_affinity_priority.satisfy
           /\ ec1 \notin DOMAIN mm
  \/ /\ HasPodPreferred(td)
     /\ \/ ec1 \notin DOMAIN nps
        \/ m \notin DOMAIN nps[ec1]
        \/ ec1 \notin DOMAIN mm

\* lines 176-210: [norm |-> the normalised score, rec |-> the record after]
NodeAffinityNormalized(td, rec, mmrec) ==
  IF ~HasNodePreferred(td) \/ ~rec.satisfy THEN [norm |-> 0, rec |-> rec]
  ELSE IF rec.final_score = -1
  THEN LET max_score == mmrec.max_score IN
       IF max_score # 0
       THEN LET n == TruncDiv(rec.score * omega_, max_score)
            IN [norm |-> n, rec |-> [rec EXCEPT !.final_score = n]]
       ELSE [norm |-> 0, rec |-> rec]
  ELSE [norm |-> rec.final_score, rec |-> rec]

\* the pod-affinity normalisation storing the raw score as final_score
PodAffinityNormalizedStoresRaw(td, rec, mmrec) ==
  IF ~(td.has_affinity /\ (td.affinity.pod_preferred # <<>>
                           \/ td.affinity.anti_preferred # <<>>))
  THEN [norm |-> 0, rec |-> rec]
  ELSE IF rec.final_score = -1
  THEN [norm |-> IF mmrec.max_score - mmrec.min_score > 0
                 THEN TruncDiv(rec.score - mmrec.min_score,
                               mmrec.max_score - mmrec.min_score) * omega_
                 ELSE 0,
        rec |-> [rec EXCEPT !.final_score = rec.score]]
  ELSE [norm |-> rec.final_score, rec |-> rec]

\* lines 213-247: the quotient is an integer division
PodAffinityNormalized(td, rec, mmrec) ==
  IF ~HasPodPreferred(td) THEN [norm |-> 0, rec |-> rec]
  ELSE IF rec.final_score = -1
  THEN LET max_score == mmrec.max_score
           min_score == mmrec.min_score
           n == IF max_score - min_score > 0
                THEN TruncDiv(rec.score - min_score, max_score - min_score)
                     * omega_
                ELSE 0
       IN [norm |-> n, rec |-> [rec EXCEPT !.final_score = n]]
  ELSE [norm |-> rec.final_score, rec |-> rec]

\* FlattenCostVector raising infinity_ to the sum itself
FlattenCostVectorNoMargin(cv, inf) ==
  LET accumulator == cv.cpu_mem_cost_ + cv.balanced_res_cost_
                     + cv.node_affinity_soft_cost_
                     + cv.pod_affinity_soft_cost_
  IN [cost |-> accumulator,
      infinity |-> IF accumulator > inf THEN accumulator ELSE inf]

\* [accumulator, infinity_ after]
FlattenCostVector(cv, inf) ==
  LET accumulator == cv.cpu_mem_cost_ + cv.balanced_res_cost_
                     + cv.node_affinity_soft_cost_
                     + cv.pod_affinity_soft_cost_
  IN [cost |-> accumulator,
      infinity |-> IF accumulator > inf THEN accumulator + 1 ELSE inf]

\* the whole call on registered ECs whose score records exist
PriceArc(rm, ecr, tds, etm, eti, nps, mm, inf, ec1, ec2) ==
  LET req == ecr[ec1]
      m == etm[ec2]
      rd == rm[m]
      ec_index == eti[ec2]
      avail_cpu == CpuCoresU64(rd.avail_cpu)
      avail_ram == rd.avail_ram
  IN
  IF SlotDoesNotFit(avail_cpu, avail_ram, req, ec_index)
  THEN [arc |-> ArcDescriptor(0, 0, 0), nps |-> nps, infinity |-> inf,
        wrapped |-> FALSE, cv |-> <<>>]
  ELSE
    LET post_cpu == CpuCoresU64(rd.avail_cpu - 100 * ec_index * req.cpu_cores_)
        post_ram == avail_ram - ec_index * req.ram_cap_
        rc == ResourceCosts(rd.cap_cpu, rd.cap_ram, post_cpu, post_ram)
        td == tds[ec1]
        scored == ec1 \in DOMAIN nps /\ m \in DOMAIN nps[ec1]
        recs == IF scored THEN nps[ec1][m] ELSE NewPriorityScoresList
        mmrec == IF ec1 \in DOMAIN mm THEN mm[ec1] ELSE NewMinMaxScores
        node == NodeAffinityNormalized(td, recs.node_affinity_priority,
                                       mmrec.node_affinity_priority)
        pod == PodAffinityNormalized(td, recs.pod_affinity_priority,
                                     mmrec.pod_affinity_priority)
        cv == [cpu_mem_cost_ |-> rc.cpu_mem_cost_,
               balanced_res_cost_ |-> rc.balanced_res_cost_,
               node_affinity_soft_cost_ |-> omega_ - node.norm,
               pod_affinity_soft_cost_ |-> omega_ - pod.norm]
        flat == FlattenCostVector(cv, inf)
    IN [arc |-> ArcDescriptor(flat.cost, 1, 0),
        nps |-> IF scored
                THEN [nps EXCEPT ![ec1][m] =
                        [node_affinity_priority |-> node.rec,
                         pod_affinity_priority |-> pod.rec]]
                ELSE nps,
        infinity |-> flat.infinity,
        wrapped |-> rc.wrapped,
        cv |-> cv]


(***************************************************************************)
(* The registry operations.                                                *)
(***************************************************************************)
MachineRegistry ==
  [ecs_for_machines_ |-> ecs_for_machines_, ec_to_machine_ |-> ec_to_machine_,
   ec_to_index_ |-> ec_to_index_]

Registry ==
  [machines |-> MachineRegistry,
   task_resource_requirement_ |-> task_resource_requirement_,
   ec_resource_requirement_ |-> ec_resource_requirement_,
   ec_to_td_requirements |-> ec_to_td_requirements]

\* the values of the flag max_multi_arcs_for_cpu the registry is run with;
\* AddMachine does not read the flag
MultiArcFlags == 1..MaxPods

\* the ECs of the machine's slots, index 0 first
MachineECs(rm, m) ==
  [i \in 1..rm[m].max_pods |-> GetMachineEC(FriendlyName(m), i - 1)]

\* the slot-index insertion counting slots from one
WithSlotIndexesFromOne(f, mecs, n) ==
  [x \in (DOMAIN f) \cup {mecs[i] : i \in 1..n} |->
     IF x \in DOMAIN f THEN f[x]
     ELSE CHOOSE i \in 1..n : mecs[i] = x]

\* ec_to_index_ after the loop has inserted slots 0..n-1
WithSlotIndexes(f, mecs, n) ==
  [x \in (DOMAIN f) \cup {mecs[i] : i \in 1..n} |->
     IF x \in DOMAIN f THEN f[x]
     ELSE (CHOOSE i \in 1..n : mecs[i] = x) - 1]

\* ec_to_machine_ after the loop has inserted slots 0..n-1
WithSlotMachine(f, mecs, n, res_id) ==
  [x \in (DOMAIN f) \cup {mecs[i] : i \in 1..n} |->
     IF x \in DOMAIN f THEN f[x] ELSE res_id]

\* AddMachine that skips what the maps already hold instead of checking
AddMachineSkipsDuplicates(reg, rm, m) ==
  LET mecs == [i \in 1..rm[m].max_pods |-> GetMachineEC(FriendlyName(m), i - 1)]
      n == Len(mecs)
      fresh == {i \in 1..n : mecs[i] \notin DOMAIN reg.ec_to_index_}
  IN [fatal |-> FALSE,
      ecs_for_machines_ |->
        IF m \in DOMAIN reg.ecs_for_machines_ THEN reg.ecs_for_machines_
        ELSE [x \in (DOMAIN reg.ecs_for_machines_) \cup {m} |->
                IF x = m THEN mecs ELSE reg.ecs_for_machines_[x]],
      ec_to_index_ |->
        [x \in (DOMAIN reg.ec_to_index_) \cup {mecs[i] : i \in fresh} |->
           IF x \in DOMAIN reg.ec_to_index_ THEN reg.ec_to_index_[x]
           ELSE (CHOOSE i \in fresh : mecs[i] = x) - 1],
      ec_to_machine_ |->
        [x \in (DOMAIN reg.ec_to_machine_) \cup {mecs[i] : i \in 1..n} |->
           IF x \in DOMAIN reg.ec_to_machine_ THEN reg.ec_to_machine_[x] ELSE m]]

\* AddMachine on the maps (reg is a MachineRegistry): the loop stops at the
\* first slot whose EC a map already holds (a failed CHECK), with what it
\* inserted before
AddMachineMaps(reg, rm, m) ==
  LET mecs == MachineECs(rm, m)
      n == Len(mecs)
      clash == {i \in 1..n : mecs[i] \in DOMAIN reg.ec_to_index_
                             \/ mecs[i] \in DOMAIN reg.ec_to_machine_}
  IN IF clash # {}
     THEN LET f == Min(clash) IN
          [fatal |-> TRUE,
           ecs_for_machines_ |-> reg.ecs_for_machines_,
           ec_to_index_ |->
             WithSlotIndexes(reg.ec_to_index_, mecs,
                       IF mecs[f] \in DOMAIN reg.ec_to_index_ THEN f - 1 ELSE f),
           ec_to_machine_ |-> WithSlotMachine(reg.ec_to_machine_, mecs, f - 1, m)]
     ELSE [fatal |-> m \in DOMAIN reg.ecs_for_machines_,
           ecs_for_machines_ |->
             InsertIfNotPresent(reg.ecs_for_machines_, m, mecs),
           ec_to_index_ |-> WithSlotIndexes(reg.ec_to_index_, mecs, n),
           ec_to_machine_ |-> WithSlotMachine(reg.ec_to_machine_, mecs, n, m)]

\* the erase loop of RemoveMachine for a registered machine: it stops at the
\* first EC one of the two maps does not hold
EraseSlots(f, mecs, n) == [x \in (DOMAIN f) \ {mecs[i] : i \in 1..n} |-> f[x]]

\* RemoveMachine that ignores a machine it does not know
RemoveMachineIgnoresUnknown(reg, res_id) ==
  IF res_id \notin DOMAIN reg.ecs_for_machines_
  THEN [fatal |-> FALSE, ecs_for_machines_ |-> reg.ecs_for_machines_,
        ec_to_index_ |-> reg.ec_to_index_, ec_to_machine_ |-> reg.ec_to_machine_]
  ELSE [fatal |-> FALSE,
        ecs_for_machines_ |->
          [x \in (DOMAIN reg.ecs_for_machines_) \ {res_id} |->
             reg.ecs_for_machines_[x]],
        ec_to_machine_ |->
          [x \in (DOMAIN reg.ec_to_machine_)
                   \ SeqRange(reg.ecs_for_machines_[res_id]) |->
             reg.ec_to_machine_[x]],
        ec_to_index_ |->
          [x \in (DOMAIN reg.ec_to_index_)
                   \ SeqRange(reg.ecs_for_machines_[res_id]) |->
             reg.ec_to_index_[x]]]

\* RemoveMachine that forgets the slot-index map
RemoveMachineKeepsIndexes(reg, res_id) ==
  IF res_id \notin DOMAIN reg.ecs_for_machines_
  THEN [fatal |-> TRUE, ecs_for_machines_ |-> reg.ecs_for_machines_,
        ec_to_index_ |-> reg.ec_to_index_, ec_to_machine_ |-> reg.ec_to_machine_]
  ELSE [fatal |-> FALSE,
        ecs_for_machines_ |-> Erase(reg.ecs_for_machines_, res_id),
        ec_to_machine_ |->
          EraseSlots(reg.ec_to_machine_, reg.ecs_for_machines_[res_id],
                     Len(reg.ecs_for_machines_[res_id])),
        ec_to_index_ |-> reg.ec_to_index_]

RemoveMachineMaps(reg, res_id) ==
  IF res_id \notin DOMAIN reg.ecs_for_machines_
  THEN [fatal |-> TRUE, ecs_for_machines_ |-> reg.ecs_for_machines_,
        ec_to_index_ |-> reg.ec_to_index_, ec_to_machine_ |-> reg.ec_to_machine_]
  ELSE
    LET mecs == reg.ecs_for_machines_[res_id]
        n == Len(mecs)
        gone == {i \in 1..n : mecs[i] \notin DOMAIN reg.ec_to_machine_
                              \/ mecs[i] \notin DOMAIN reg.ec_to_index_}
    IN IF gone # {}
       THEN LET f == Min(gone) IN
            [fatal |-> TRUE, ecs_for_machines_ |-> reg.ecs_for_machines_,
             ec_to_machine_ |->
               EraseSlots(reg.ec_to_machine_, mecs,
                          IF mecs[f] \in DOMAIN reg.ec_to_machine_ THEN f
                          ELSE f - 1),
             ec_to_index_ |-> EraseSlots(reg.ec_to_index_, mecs, f - 1)]
       ELSE [fatal |-> FALSE,
             ecs_for_machines_ |-> Erase(reg.ecs_for_machines_, res_id),
             ec_to_machine_ |-> EraseSlots(reg.ec_to_machine_, mecs, n),
             ec_to_index_ |-> EraseSlots(reg.ec_to_index_, mecs, n)]

AddMachine(m) ==
  /\ ~fatal
  /\ LET r == AddMachineMaps(MachineRegistry, resource_map, m) IN
       /\ ecs_for_machines_' = r.ecs_for_machines_
       /\ ec_to_index_' = r.ec_to_index_
       /\ ec_to_machine_' = r.ec_to_machine_
       /\ fatal' = r.fatal
  /\ last_call' = Call("AddMachine", m, <<>>, <<Registry>>)
  /\ UNCHANGED <<task_registry_vars, score_vars, infinity_, env_vars>>

RemoveMachine(res_id) ==
  /\ ~fatal
  /\ LET r == RemoveMachineMaps(MachineRegistry, res_id) IN
       /\ ecs_for_machines_' = r.ecs_for_machines_
       /\ ec_to_index_' = r.ec_to_index_
       /\ ec_to_machine_' = r.ec_to_machine_
       /\ fatal' = r.fatal
  /\ last_call' = Call("RemoveMachine", res_id, <<>>,
                       IF last_call.op = "AddMachine" /\ last_call.arg = res_id
                       THEN last_call.pre ELSE <<>>)
  /\ UNCHANGED <<task_registry_vars, score_vars, infinity_, env_vars>>

\* the request AddTask records: the descriptor's request cast to uint64_t
RequestOf(td) == [cpu_cores_ |-> td.cpu_cores, ram_cap_ |-> td.ram_cap]

AddTask(task_id) ==
  /\ ~fatal
  /\ IF task_id \in DOMAIN task_map /\ task_id \notin DOMAIN task_resource_requirement_
     THEN /\ task_resource_requirement_' =
               Put(task_resource_requirement_, task_id, RequestOf(task_map[task_id]))
          /\ fatal' = FALSE
     ELSE /\ fatal' = TRUE
          /\ UNCHANGED task_resource_requirement_
  /\ last_call' = Call("AddTask", task_id, <<>>, <<>>)
  /\ UNCHANGED <<machine_registry_vars, ec_resource_requirement_,
                 ec_to_td_requirements, score_vars, infinity_, env_vars>>

RemoveTask(task_id) ==
  /\ ~fatal
  /\ fatal' = (task_id \notin DOMAIN task_resource_requirement_)
  /\ task_resource_requirement_' = Erase(task_resource_requirement_, task_id)
  /\ last_call' = Call("RemoveTask", task_id, <<>>, <<>>)
  /\ UNCHANGED <<machine_registry_vars, ec_resource_requirement_,
                 ec_to_td_requirements, score_vars, infinity_, env_vars>>

\* an EC id that hashes the request for affinity-bearing tasks too
TaskECHashesRequest(td, req) ==
  IF td.has_affinity THEN <<"job", td.job_id, req.cpu_cores_, req.ram_cap_>>
  ELSE IF td.label_selectors # <<>>
  THEN <<"selectors", td.label_selectors, req.cpu_cores_, req.ram_cap_>>
  ELSE <<"request", "", req.cpu_cores_, req.ram_cap_>>

\* the EC id of a task: the job for an affinity-bearing task, else the
\* selectors with the request, else the request
TaskEC(td, req) ==
  IF td.has_affinity THEN JobEC(td.job_id)
  ELSE IF td.label_selectors # <<>>
  THEN SelectorsEC(td.label_selectors, req.cpu_cores_, req.ram_cap_)
  ELSE RequestEC(req.cpu_cores_, req.ram_cap_)

GetTaskEquivClasses(task_id) ==
  /\ ~fatal
  /\ IF task_id \in DOMAIN task_map /\ task_id \in DOMAIN task_resource_requirement_
     THEN LET req == task_resource_requirement_[task_id]
              ec == TaskEC(task_map[task_id], req)
          IN /\ ec_resource_requirement_' =
                  InsertIfNotPresent(ec_resource_requirement_, ec, req)
             /\ ec_to_td_requirements' =
                  InsertIfNotPresent(ec_to_td_requirements, ec, task_map[task_id])
             /\ last_call' = Call("GetTaskEquivClasses", task_id, <<ec>>, <<>>)
             /\ fatal' = FALSE
     ELSE /\ fatal' = TRUE
          /\ last_call' = Call("GetTaskEquivClasses", task_id, <<>>, <<>>)
          /\ UNCHANGED <<ec_resource_requirement_, ec_to_td_requirements>>
  /\ UNCHANGED <<machine_registry_vars, task_resource_requirement_,
                 score_vars, infinity_, env_vars>>


GetOutgoingEquivClassPrefArcs(ec) ==
  /\ ~fatal
  /\ last_call' = Call("GetOutgoingEquivClassPrefArcs", ec,
                       IF ec \in DOMAIN ec_to_machine_
                       THEN <<ec_to_machine_[ec]>> ELSE <<>>, <<>>)
  /\ UNCHANGED <<cm_vars, env_vars, fatal>>

(***************************************************************************)
(* The per-round queries.                                                  *)
(***************************************************************************)
\* what the call returns (pref_ecs) and, for the record, the order the
\* machines were visited in, the namespaces set and the min/max trackers at
\* entry and the terms evaluated
GetEquivClassToEquivClassesArcs(ec) ==
  /\ ~fatal
  /\ \E order \in Orders(DOMAIN ecs_for_machines_) :
       \E r \in {PrefArcs(resource_map, task_map, labels_map, ecs_for_machines_,
                          ec_resource_requirement_, ec_to_td_requirements,
                          ec_to_node_priority_scores,
                          ec_to_max_min_priority_scores, namespaces, ec, order)} :
          /\ ec_to_node_priority_scores' = r.nps
          /\ ec_to_max_min_priority_scores' = r.mm
          /\ namespaces' = r.nss
          /\ last_call' = Call("GetEquivClassToEquivClassesArcs", ec,
                               [pref_ecs |-> r.pref_ecs, order |-> order,
                                entry_namespaces |-> namespaces,
                                entry_min_max |->
                                  ec_to_max_min_priority_scores,
                                log |-> r.log], <<>>)
  /\ UNCHANGED <<registry_vars, infinity_, env_vars, fatal>>

\* what an out-of-range float -> int64_t conversion may leave in the cost:
\* a value below the documented range, inside it, or above it
OutOfRangeCosts == {-1, 0, omega_ * dimensions_ + omega_}

EquivClassToEquivClass(ec1, ec2) ==
  /\ ~fatal
  /\ IF \/ ec1 \notin DOMAIN ec_resource_requirement_
        \/ ec2 \notin DOMAIN ec_to_machine_
        \/ ec2 \notin DOMAIN ec_to_index_
     THEN /\ fatal' = TRUE
          /\ last_call' = Call("EquivClassToEquivClass", <<ec1, ec2>>, <<>>, <<>>)
          /\ UNCHANGED <<ec_to_node_priority_scores, infinity_>>
     ELSE
       \E p \in {PriceArc(resource_map, ec_resource_requirement_,
                          ec_to_td_requirements, ec_to_machine_, ec_to_index_,
                          ec_to_node_priority_scores,
                          ec_to_max_min_priority_scores, infinity_, ec1, ec2)} :
          IF /\ p.arc.capacity = 1
             /\ \/ ec1 \notin DOMAIN ec_to_td_requirements
                \/ ScoreRecordMissing(ec_to_td_requirements,
                                      ec_to_node_priority_scores,
                                      ec_to_max_min_priority_scores,
                                      ec1, ec_to_machine_[ec2])
          THEN /\ fatal' = TRUE
               /\ last_call' =
                    Call("EquivClassToEquivClass", <<ec1, ec2>>, <<>>, <<>>)
               /\ UNCHANGED <<ec_to_node_priority_scores, infinity_>>
          ELSE /\ fatal' = FALSE
               /\ ec_to_node_priority_scores' = p.nps
               /\ IF p.wrapped
                  THEN \E c \in OutOfRangeCosts :
                         /\ infinity_' = IF c > infinity_ THEN c + 1 ELSE infinity_
                         /\ last_call' =
                              Call("EquivClassToEquivClass", <<ec1, ec2>>,
                                   [arc |-> ArcDescriptor(c, 1, 0), cv |-> <<>>],
                                   <<>>)
                  ELSE /\ infinity_' = p.infinity
                       /\ last_call' =
                            Call("EquivClassToEquivClass", <<ec1, ec2>>,
                                 [arc |-> p.arc, cv |-> p.cv], <<>>)
  /\ UNCHANGED <<registry_vars, ec_to_max_min_priority_scores, namespaces,
                 env_vars>>

(***************************************************************************)
(* The arc classes with a fixed descriptor.                                *)
(***************************************************************************)
TaskToUnscheduledAgg(task_id) == ArcDescriptor(UnschedCost, 1, 0)

UnscheduledAggToSink(job_id) == ArcDescriptor(0, 1, 0)

TaskToResourceNode(task_id, resource_id) == ArcDescriptor(0, 1, 0)

\* a leaf arc whose capacity is the machine's num_slots_below
LeafResourceNodeToSinkSlotsBelow(rm, resource_id) ==
  [cost |-> 0,
   capacity |-> rm[MachineResIDForResource(resource_id)].num_slots_below,
   lower_bound |-> 0]

LeafResourceNodeToSink(rm, resource_id) ==
  LET machine_res_id == MachineResIDForResource(resource_id)
  IN ArcDescriptor(0, rm[machine_res_id].max_pods, 0)

TaskContinuation(task_id) == ArcDescriptor(0, 1, 0)

TaskPreemption(task_id) == ArcDescriptor(0, 1, 0)

TaskToEquivClassAggregator(task_id, ec) == ArcDescriptor(0, 1, 0)

EquivClassToResourceNode(ec, res_id) == ArcDescriptor(0, 1, 0)

GetTaskPreferenceArcs(task_id) == <<>>

\* a call of one of these methods: it returns ret and changes nothing
ArcQuery(op, arg, ret) ==
  /\ ~fatal
  /\ last_call' = Call(op, arg, ret, <<>>)
  /\ UNCHANGED <<cm_vars, env_vars, fatal>>

(***************************************************************************)
(* The statistics pass.  A node of the flow graph is a resource or the     *)
(* sink (no resource id, no descriptor).                                   *)
(***************************************************************************)
Sink == "sink"
IsResourceNode(node) == node \in Resources

\* PU descriptors list the tasks running on them
CurrentRunningTasks(tm, pu) ==
  {t \in DOMAIN tm : tm[t].state = "RUNNING" /\ tm[t].scheduled_to_resource = pu}

\* PrepareStats clearing the slot count and the available ram only, so that
\* the available cpu and the running-task count carry over to the next pass
PrepareStatsKeepsTotals(node) ==
  /\ ~fatal
  /\ IF ~IsResourceNode(node)
     THEN UNCHANGED <<resource_map, ec_to_node_priority_scores>>
     ELSE /\ resource_map' =
               [resource_map EXCEPT ![node].num_slots_below = 0,
                                    ![node].avail_ram = 0]
          /\ ec_to_node_priority_scores' = EmptyMap
  /\ last_call' = Call("PrepareStats", node, <<>>, <<>>)
  /\ UNCHANGED <<registry_vars, ec_to_max_min_priority_scores, namespaces,
                 infinity_, task_map, labels_map, knowledge_base, fatal>>

PrepareStats(node) ==
  /\ ~fatal
  /\ IF ~IsResourceNode(node)
     THEN UNCHANGED <<resource_map, ec_to_node_priority_scores>>
     ELSE /\ resource_map' =
               [resource_map EXCEPT ![node].num_running_tasks_below = 0,
                                    ![node].num_slots_below = 0,
                                    ![node].avail_cpu = 0,
                                    ![node].avail_ram = 0]
          /\ ec_to_node_priority_scores' = EmptyMap
  /\ last_call' = Call("PrepareStats", node, <<>>, <<>>)
  /\ UNCHANGED <<registry_vars, ec_to_max_min_priority_scores, namespaces,
                 infinity_, task_map, labels_map, knowledge_base, fatal>>

\* a sample of the knowledge base: utilisations are whole percents
Sample(cpus, mem_capacity, mem_utilization) ==
  [have |-> TRUE, cpus_stats |-> cpus, mem_capacity |-> mem_capacity,
   mem_utilization |-> mem_utilization]
NoSample == [have |-> FALSE, cpus_stats |-> <<>>, mem_capacity |-> 0,
             mem_utilization |-> 0]
CpuStats(capacity, utilization) ==
  [cpu_capacity |-> capacity, cpu_utilization |-> utilization]

AccumulateResourceStats(accumulator, other) ==
  [accumulator EXCEPT
     !.avail_cpu = @ + other.avail_cpu,
     !.num_running_tasks_below = @ + other.num_running_tasks_below,
     !.num_slots_below = @ + other.num_slots_below]

\* the descriptor of a PU after GatherStats(PU, sink) with a sample; cpu is
\* kept in hundredths of a core: capacity * (1.0 - utilisation)
GatherPU(rm, tm, kb, pu) ==
  LET machine_res_id == MachineResIDForResource(pu)
      latest_stats == kb[machine_res_id]
      core == latest_stats.cpus_stats[CoreIdOf(pu) + 1]
  IN [rm[pu] EXCEPT
        !.avail_cpu = core.cpu_capacity * (100 - core.cpu_utilization),
        !.num_running_tasks_below = Cardinality(CurrentRunningTasks(tm, pu)),
        !.num_slots_below = rm[machine_res_id].max_pods]

\* the descriptor of a machine after GatherStats(machine, other)
GatherMachine(rm, kb, m, other) ==
  LET latest_stats == kb[m]
      sampled == IF latest_stats.have
                 THEN [rm[m] EXCEPT !.avail_ram =
                         (latest_stats.mem_capacity
                          * (100 - latest_stats.mem_utilization)) \div 100]
                 ELSE rm[m]
  IN IF IsResourceNode(other) THEN AccumulateResourceStats(sampled, rm[other])
     ELSE sampled

GatherStats(accumulator, other) ==
  /\ ~fatal
  /\ IF ~IsResourceNode(accumulator)
     THEN UNCHANGED <<resource_map, fatal>>
     ELSE IF ResType(accumulator) = "PU"
     THEN IF IsResourceNode(other)
          THEN fatal' = TRUE /\ UNCHANGED resource_map
          ELSE /\ fatal' = FALSE
               /\ IF knowledge_base[MachineResIDForResource(accumulator)].have
                  THEN resource_map' =
                         [resource_map EXCEPT ![accumulator] =
                            GatherPU(resource_map, task_map, knowledge_base,
                                     accumulator)]
                  ELSE UNCHANGED resource_map
     ELSE /\ fatal' = FALSE
          /\ resource_map' =
               [resource_map EXCEPT ![accumulator] =
                  GatherMachine(resource_map, knowledge_base, accumulator, other)]
  /\ last_call' = Call("GatherStats", <<accumulator, other>>, <<>>, <<>>)
  /\ UNCHANGED <<cm_vars, task_map, labels_map, knowledge_base>>


(***************************************************************************)
(* Descriptors.                                                            *)
(***************************************************************************)
NoAffinity ==
  [node_required |-> <<>>, node_preferred |-> <<>>,
   pod_required |-> <<>>, pod_preferred |-> <<>>,
   anti_required |-> <<>>, anti_preferred |-> <<>>]

TaskDescriptor(ns, state, pu, job, cpu, ram, has_affinity, affinity) ==
  [task_namespace |-> ns, state |-> state, scheduled_to_resource |-> pu,
   job_id |-> job, cpu_cores |-> cpu, ram_cap |-> ram,
   label_selectors |-> <<>>, has_affinity |-> has_affinity,
   affinity |-> affinity]

\* cpu availability is in hundredths of a core, everything else in units
ResourceDescriptor(max_pods, cap_cpu, cap_ram, avail_cpu, avail_ram, labels) ==
  [max_pods |-> max_pods, cap_cpu |-> cap_cpu, cap_ram |-> cap_ram,
   avail_cpu |-> avail_cpu, avail_ram |-> avail_ram,
   num_running_tasks_below |-> 0, num_slots_below |-> 0, labels |-> labels]

NodeLabels(r) ==
  CASE r = "m1" -> {<<"zone", "a">>}
    [] r = "m2" -> {<<"zone", "b">>}
    [] OTHER -> {}

\* the state of CpuCostModel after its constructor
FreshCostModel ==
  /\ ecs_for_machines_ = EmptyMap
  /\ ec_to_machine_ = EmptyMap
  /\ ec_to_index_ = EmptyMap
  /\ task_resource_requirement_ = EmptyMap
  /\ ec_resource_requirement_ = EmptyMap
  /\ ec_to_td_requirements = EmptyMap
  /\ ec_to_node_priority_scores = EmptyMap
  /\ ec_to_max_min_priority_scores = EmptyMap
  /\ namespaces = {}
  /\ infinity_ = omega_ * dimensions_

\* the round's bookkeeping of the caller: the PrepareStats and GatherStats
\* calls the traversal still owes, the preference lists returned so far,
\* <<the descriptors as the previous round left them>>, and for every pair
\* priced since the last listing what its first pricing returned and whether
\* it has been priced again, and for every task what its first
\* GetTaskEquivClasses call returned
NoRound == [todo |-> <<>>, listed |-> EmptyMap, start |-> <<>>,
            priced |-> EmptyMap, task_ecs |-> EmptyMap]

(***************************************************************************)
(* The registry under arbitrary AddMachine / RemoveMachine / AddTask /     *)
(* RemoveTask / GetTaskEquivClasses calls.                                 *)
(***************************************************************************)
NodeTerm(exprs) == [matchexpressions |-> exprs]

RegistryTasks ==
  [t \in Tasks |->
     CASE t = "t1" -> TaskDescriptor("ns1", "RUNNABLE", "", "j1", 1, 1, TRUE,
                        [NoAffinity EXCEPT !.node_preferred =
                           <<Weighted(20, NodeTerm(<<Expr("zone", "In", <<"a">>)>>))>>])
       [] t = "t2" -> TaskDescriptor("ns1", "RUNNABLE", "", "j1", MaxReq, 1, TRUE,
                        [NoAffinity EXCEPT !.node_preferred =
                           <<Weighted(20, NodeTerm(<<Expr("zone", "In", <<"a">>)>>))>>])
       [] t = "t3" -> TaskDescriptor("ns1", "RUNNABLE", "", "j2", 1, 1, FALSE,
                                     NoAffinity)
       [] OTHER -> TaskDescriptor("ns2", "RUNNABLE", "", "j3", 1, 1, FALSE,
                                  NoAffinity)]

InitRegistry ==
  /\ FreshCostModel
  /\ \E mp \in [Machines -> 0..MaxPods] :
       resource_map =
         [r \in Resources |->
            ResourceDescriptor(IF r \in Machines THEN mp[r] ELSE 0,
                               MaxCap, MaxCap, 0, 0, NodeLabels(r))]
  /\ task_map = RegistryTasks
  /\ labels_map = EmptyMap
  /\ knowledge_base = [m \in Machines |-> NoSample]
  /\ fatal = FALSE
  /\ last_call = NoCall
  /\ round = NoRound

NextRegistry ==
  \/ \E m \in Machines : AddMachine(m) /\ UNCHANGED round
  \/ \E m \in Machines : RemoveMachine(m) /\ UNCHANGED round
  \/ \E t \in Tasks : AddTask(t) /\ UNCHANGED round
  \/ \E t \in Tasks : RemoveTask(t) /\ UNCHANGED round
  \/ \E t \in Tasks : GetTaskEquivClasses(t) /\ UNCHANGED round

SpecRegistry == InitRegistry /\ [][NextRegistry]_vars


(***************************************************************************)
(* A cost model whose registry has been filled: AddMachine for every       *)
(* machine, then AddTask and GetTaskEquivClasses for the tasks ts (each    *)
(* with an EC of its own).                                                 *)
(***************************************************************************)
RECURSIVE AddMachines(_, _, _)
AddMachines(reg, rm, order) ==
  IF order = <<>> THEN reg
  ELSE CHOOSE out \in
         {AddMachines(r, rm, Tail(order)) :
            r \in {AddMachineMaps(reg, rm, Head(order))}} :
         TRUE

EmptyMachineRegistry ==
  [ecs_for_machines_ |-> EmptyMap, ec_to_machine_ |-> EmptyMap,
   ec_to_index_ |-> EmptyMap]

FilledRegistry(rm, tm, ts) ==
  LET reg == AddMachines(EmptyMachineRegistry, rm, <<"m1", "m2">>)
      ecs == {TaskEC(tm[t], RequestOf(tm[t])) : t \in ts}
      rep(ec) == CHOOSE t \in ts : TaskEC(tm[t], RequestOf(tm[t])) = ec
  IN /\ ecs_for_machines_ = reg.ecs_for_machines_
     /\ ec_to_machine_ = reg.ec_to_machine_
     /\ ec_to_index_ = reg.ec_to_index_
     /\ task_resource_requirement_ = [t \in ts |-> RequestOf(tm[t])]
     /\ ec_resource_requirement_ = [ec \in ecs |-> RequestOf(tm[rep(ec)])]
     /\ ec_to_td_requirements = [ec \in ecs |-> tm[rep(ec)]]
     /\ ec_to_node_priority_scores = EmptyMap
     /\ ec_to_max_min_priority_scores = EmptyMap
     /\ namespaces = {}
     /\ infinity_ = omega_ * dimensions_

\* the ECs a round may be asked about: every task-EC and every machine-EC
TaskECs == DOMAIN ec_resource_requirement_
MachineECsKnown == DOMAIN ec_to_machine_

\* the caller's view of a listing and a pricing call in the arcs phase
ListArcs(ec) ==
  /\ round.todo = <<>>
  /\ GetEquivClassToEquivClassesArcs(ec)
  /\ round' = [round EXCEPT !.listed = Put(@, ec, last_call'.ret.pref_ecs),
                            !.priced = EmptyMap]

PriceArcs(ec1, ec2) ==
  /\ round.todo = <<>>
  /\ EquivClassToEquivClass(ec1, ec2)
  /\ round' =
       IF fatal' THEN round
       ELSE [round EXCEPT !.priced =
               IF <<ec1, ec2>> \in DOMAIN @
               THEN [@ EXCEPT ![<<ec1, ec2>>].again = TRUE]
               ELSE Put(@, <<ec1, ec2>>,
                        [first |-> last_call'.ret, again |-> FALSE])]

(***************************************************************************)
(* Admission: listing and pricing over every combination of slots,         *)
(* available resources and request.                                        *)
(***************************************************************************)
PodLabels(tasks) == [k \in {"app"} |-> [v \in {"X"} |-> tasks]]

AdmissionTasks(cpu, ram) ==
  [t \in Tasks |->
     CASE t = "t1" -> TaskDescriptor("ns1", "RUNNABLE", "", "j1", 1, 1, TRUE,
                        [NoAffinity EXCEPT !.node_required =
                           <<NodeTerm(<<Expr("zone", "In", <<"a">>)>>)>>])
       [] t = "t3" -> TaskDescriptor("ns1", "RUNNABLE", "", "j3", cpu, ram,
                                     FALSE, NoAffinity)
       [] OTHER -> TaskDescriptor("ns1", "RUNNING", "m2p0", "j4", 1, 1, FALSE,
                                  NoAffinity)]

\* m1 has any slot count, any available vector (cpu in half cores) and a
\* capacity vector of MaxCap or of one unit, which its available vector may
\* exceed; m2 has one slot and is idle
InitAdmission ==
  /\ \E mp \in 0..MaxPods, cpu \in 0..(2 * MaxCap), ram \in 0..MaxPods,
        cap \in {1, MaxCap} :
       resource_map =
         [r \in Resources |->
            IF r = "m1"
            THEN ResourceDescriptor(mp, cap, cap, 50 * cpu, ram,
                                    NodeLabels(r))
            ELSE ResourceDescriptor(IF r = "m2" THEN 1 ELSE 0, MaxCap, MaxCap,
                                    100 * MaxCap, MaxCap, NodeLabels(r))]
  /\ \E cpu \in 0..MaxReq, ram \in 0..1 :
       task_map = AdmissionTasks(cpu, ram)
  /\ labels_map = PodLabels(<<"t4">>)
  /\ knowledge_base = [m \in Machines |-> NoSample]
  /\ FilledRegistry(resource_map, task_map, {"t1", "t3"})
  /\ fatal = FALSE
  /\ last_call = NoCall
  /\ round = NoRound

NextAdmission ==
  \/ \E ec \in TaskECs : GetEquivClassToEquivClassesArcs(ec) /\ UNCHANGED round
  \/ \E ec1 \in TaskECs, ec2 \in MachineECsKnown :
       EquivClassToEquivClass(ec1, ec2) /\ UNCHANGED round

SpecAdmission == InitAdmission /\ [][NextAdmission]_vars


(***************************************************************************)
(* Scheduling rounds.  The caller walks the flow graph from the sink       *)
(* towards the machines: a node is prepared when the walk first reaches    *)
(* it, and gathered once per arc to a node already visited.  When the walk *)
(* is over the caller lists and prices arcs, then starts the next round    *)
(* with whatever samples the knowledge base has by then.                   *)
(***************************************************************************)
UnschedAgg == "unsched_agg"

Traversal ==
  <<<<"PrepareStats", UnschedAgg>>, <<"GatherStats", UnschedAgg, Sink>>,
    <<"PrepareStats", "m1p0">>, <<"GatherStats", "m1p0", Sink>>,
    <<"PrepareStats", "m2p0">>, <<"GatherStats", "m2p0", Sink>>,
    <<"PrepareStats", "m2p1">>, <<"GatherStats", "m2p1", Sink>>,
    <<"PrepareStats", "m1">>, <<"GatherStats", "m1", "m1p0">>,
    <<"PrepareStats", "m2">>, <<"GatherStats", "m2", "m2p0">>,
    <<"GatherStats", "m2", "m2p1">>>>

\* what the knowledge base may hold for a machine: nothing, or one sample
\* (m1: its core half used, half of the memory used; m2: idle, its two cores
\* reported with a capacity of 3 each while the descriptor says MaxCap in all)
Samples(m) ==
  {NoSample,
   IF m = "m1" THEN Sample(<<CpuStats(2, 50)>>, MaxCap, 50)
   ELSE Sample(<<CpuStats(3, 0), CpuStats(3, 0)>>, MaxCap, 0)}

KnowledgeBases == {kb \in [Machines -> UNION {Samples(m) : m \in Machines}] :
                     \A m \in Machines : kb[m] \in Samples(m)}

\* t1 prefers machines with a zone label (weight 20) and zone a (weight 60),
\* t2 prefers machines running pods with an app label (weight 10) and app=X
\* pods (weight 20); t4 runs on m1, t3 on m2
RoundTasks ==
  [t \in Tasks |->
     CASE t = "t1" -> TaskDescriptor("ns1", "RUNNABLE", "", "j1", 1, 1, TRUE,
                        [NoAffinity EXCEPT !.node_preferred =
                           <<Weighted(20, NodeTerm(<<Expr("zone", "Exists", <<>>)>>)),
                             Weighted(60, NodeTerm(<<Expr("zone", "In", <<"a">>)>>))>>])
       [] t = "t2" -> TaskDescriptor("ns1", "RUNNABLE", "", "j2", 1, 1, TRUE,
                        [NoAffinity EXCEPT !.pod_preferred =
                           <<Weighted(10, Term({}, <<Expr("app", "Exists", <<>>)>>)),
                             Weighted(20, Term({}, <<Expr("app", "In", <<"X">>)>>))>>])
       [] t = "t3" -> TaskDescriptor("ns1", "RUNNING", "m2p0", "j3", 1, 1,
                                     FALSE, NoAffinity)
       [] OTHER -> TaskDescriptor("ns1", "RUNNING", "m1p0", "j4", 1, 1, FALSE,
                                  NoAffinity)]

\* the label index of the rounds: t4 carries app=X, t3 carries app=Y
RoundPodLabels ==
  [k \in {"app"} |-> [v \in {"X", "Y"} |-> IF v = "X" THEN <<"t4">> ELSE <<"t3">>]]

\* t3 is waiting or runs on m2
RoundPlacements == {<<"RUNNABLE", "">>, <<"RUNNING", "m2p0">>}

\* a new cost model with both machines and the ECs of t1 and t2 registered,
\* at the start of its first round
Init ==
  /\ resource_map =
       [r \in Resources |->
          ResourceDescriptor(IF r \in Machines THEN 1 ELSE 0, MaxCap, MaxCap,
                             0, 0, NodeLabels(r))]
  /\ task_map = RoundTasks
  /\ labels_map = RoundPodLabels
  /\ knowledge_base \in KnowledgeBases
  /\ FilledRegistry(resource_map, task_map, {"t1", "t2"})
  /\ fatal = FALSE
  /\ last_call = NoCall
  /\ round = [NoRound EXCEPT !.todo = Traversal]

RoundPrepare ==
  /\ round.todo # <<>> /\ Head(round.todo)[1] = "PrepareStats"
  /\ PrepareStats(Head(round.todo)[2])
  /\ round' = [round EXCEPT !.todo = Tail(@)]

RoundGather ==
  /\ round.todo # <<>> /\ Head(round.todo)[1] = "GatherStats"
  /\ GatherStats(Head(round.todo)[2], Head(round.todo)[3])
  /\ round' = [round EXCEPT !.todo = Tail(@)]

\* the labels machine m1 may carry in a round
RoundLabels == {{<<"zone", "a">>}, {<<"zone", "b">>}}

\* between two rounds the knowledge base gets new samples, the operator may
\* relabel m1 and the scheduler may place or evict t3
RoundStart ==
  /\ ~fatal
  /\ round.todo = <<>>
  /\ knowledge_base' \in KnowledgeBases
  /\ \E labels \in RoundLabels :
       resource_map' = [resource_map EXCEPT !["m1"].labels = labels]
  /\ \E p \in RoundPlacements :
       task_map' = [task_map EXCEPT !["t3"].state = p[1],
                                    !["t3"].scheduled_to_resource = p[2]]
  /\ round' = [round EXCEPT !.todo = Traversal, !.listed = EmptyMap,
                            !.start = <<resource_map>>, !.priced = EmptyMap]
  /\ last_call' = NoCall
  /\ UNCHANGED <<cm_vars, labels_map, fatal>>

Next ==
  \/ RoundPrepare
  \/ RoundGather
  \/ \E ec \in TaskECs : ListArcs(ec)
  \/ \E ec1 \in TaskECs, ec2 \in MachineECsKnown : PriceArcs(ec1, ec2)
  \/ RoundStart

Spec == Init /\ [][Next]_vars


(***************************************************************************)
(* Pod affinity: listings for two representative tasks over every          *)
(* placement of two labelled pods.  t1 carries one pod term, of any of the *)
(* four kinds, any operator, with or without a namespace list; t2 carries  *)
(* a required anti-affinity term on app In (X) and possibly a preferred    *)
(* affinity term naming ns2, of weight 10 or 0, and possibly two preferred *)
(* node-affinity terms.  t3 (ns1) and t4 (ns2) are the pods labelled       *)
(* app=X; each is RUNNABLE or RUNNING on m1 or on m2.                      *)
(***************************************************************************)
PodOperators == {"In", "NotIn", "Exists", "DoesNotExist"}
TermKinds == {"anti_required", "pod_required", "anti_preferred", "pod_preferred"}

\* an affinity spec with the one term in the slot of the given kind
OneTerm(kind, term) ==
  [NoAffinity EXCEPT ![kind] =
     IF kind \in {"anti_preferred", "pod_preferred"}
     THEN <<Weighted(10, term)>> ELSE <<term>>]

Placements == {<<"RUNNABLE", "">>, <<"RUNNING", "m1p0">>, <<"RUNNING", "m2p0">>}

\* the preferred node-affinity terms t2 may carry: any zone 20, zone a 60
ZonePreference ==
  <<Weighted(20, NodeTerm(<<Expr("zone", "Exists", <<>>)>>)),
    Weighted(60, NodeTerm(<<Expr("zone", "In", <<"a">>)>>))>>

AffinityTasks(kind, op, nspaces, soft, zones, p3, p4) ==
  [t \in Tasks |->
     CASE t = "t1" -> TaskDescriptor("ns1", "RUNNABLE", "", "j1", 1, 1, TRUE,
                        OneTerm(kind, Term(nspaces, <<Expr("app", op, <<"X">>)>>)))
       [] t = "t2" -> TaskDescriptor("ns1", "RUNNABLE", "", "j2", 1, 1, TRUE,
                        [NoAffinity EXCEPT
                           !.anti_required =
                             <<Term({}, <<Expr("app", "In", <<"X">>)>>)>>,
                           !.pod_preferred = soft,
                           !.node_preferred = zones])
       [] t = "t3" -> TaskDescriptor("ns1", p3[1], p3[2], "j3", 1, 1, FALSE,
                                     NoAffinity)
       [] OTHER -> TaskDescriptor("ns2", p4[1], p4[2], "j4", 1, 1, FALSE,
                                  NoAffinity)]

InitAffinity ==
  /\ resource_map =
       [r \in Resources |->
          ResourceDescriptor(IF r \in Machines THEN 1 ELSE 0, MaxCap, MaxCap,
                             100 * MaxCap, MaxCap, NodeLabels(r))]
  /\ \E kind \in TermKinds, op \in PodOperators, nspaces \in {{}, {"ns2"}},
        soft \in {<<Weighted(w, Term({"ns2"}, <<Expr("app", "Exists", <<>>)>>))>> :
                    w \in {0, 10}} \cup {<<>>},
        zones \in {<<>>, ZonePreference},
        p3 \in Placements, p4 \in Placements :
       task_map = AffinityTasks(kind, op, nspaces, soft, zones, p3, p4)
  /\ labels_map = PodLabels(<<"t3", "t4">>)
  /\ knowledge_base = [m \in Machines |-> NoSample]
  /\ FilledRegistry(resource_map, task_map, {"t1", "t2"})
  /\ fatal = FALSE
  /\ last_call = NoCall
  /\ round = NoRound

NextAffinity ==
  \/ \E ec \in TaskECs : GetEquivClassToEquivClassesArcs(ec) /\ UNCHANGED round

SpecAffinity == InitAffinity /\ [][NextAffinity]_vars


(***************************************************************************)
(* Queries against a registry that may or may not hold what they name:     *)
(* from an empty registry, the two machines and the two tasks of job j1    *)
(* are added and removed while every query is made for every EC of         *)
(* ProbeECs; the scheduler moves t1 between RUNNABLE and RUNNING.          *)
(***************************************************************************)
ProbeTasks == {"t1", "t2"}
ProbeECs == {JobEC("j1"), GetMachineEC("node1", 0), GetMachineEC("node2", 0)}

\* the scheduler places or evicts a task: its descriptor in task_map changes
TaskStateChange(t) ==
  /\ ~fatal
  /\ task_map' =
       [task_map EXCEPT ![t] =
          IF @.state = "RUNNING"
          THEN [@ EXCEPT !.state = "RUNNABLE", !.scheduled_to_resource = ""]
          ELSE [@ EXCEPT !.state = "RUNNING", !.scheduled_to_resource = "m1p0"]]
  /\ last_call' = NoCall
  /\ UNCHANGED <<cm_vars, resource_map, labels_map, knowledge_base, fatal>>

InitQueries ==
  /\ FreshCostModel
  /\ resource_map =
       [r \in Resources |->
          ResourceDescriptor(IF r \in Machines THEN 1 ELSE 0, MaxCap, MaxCap,
                             100 * MaxCap, MaxCap, NodeLabels(r))]
  /\ task_map = RegistryTasks
  /\ labels_map = EmptyMap
  /\ knowledge_base = [m \in Machines |-> NoSample]
  /\ fatal = FALSE
  /\ last_call = NoCall
  /\ round = NoRound

NextQueries ==
  \/ \E m \in Machines : AddMachine(m) /\ UNCHANGED round
  \/ \E m \in Machines : RemoveMachine(m) /\ UNCHANGED round
  \/ \E t \in ProbeTasks : AddTask(t) /\ UNCHANGED round
  \/ \E t \in ProbeTasks : RemoveTask(t) /\ UNCHANGED round
  \/ \E t \in ProbeTasks : GetTaskEquivClasses(t) /\ UNCHANGED round
  \/ \E ec \in ProbeECs : GetEquivClassToEquivClassesArcs(ec) /\ UNCHANGED round
  \/ \E ec1 \in ProbeECs, ec2 \in ProbeECs :
       EquivClassToEquivClass(ec1, ec2) /\ UNCHANGED round
  \/ \E ec \in ProbeECs : GetOutgoingEquivClassPrefArcs(ec) /\ UNCHANGED round
  \/ TaskStateChange("t1") /\ UNCHANGED round

SpecQueries == InitQueries /\ [][NextQueries]_vars


(***************************************************************************)
(* Task-ECs: every task is registered, asked for its EC and removed in any *)
(* order while the scheduler moves t1 between RUNNABLE and RUNNING.  t1    *)
(* and t2 are affinity-bearing tasks of one job with different requests;   *)
(* t3 and t4 carry neither affinity nor selectors, with equal or different *)
(* requests.                                                               *)
(***************************************************************************)
\* the caller's GetTaskEquivClasses call, remembering the first answer
QueryTaskECs(t) ==
  /\ GetTaskEquivClasses(t)
  /\ round' = IF fatal' \/ t \in DOMAIN round.task_ecs THEN round
              ELSE [round EXCEPT !.task_ecs = Put(@, t, last_call'.ret)]

InitTaskECs ==
  /\ FreshCostModel
  /\ resource_map =
       [r \in Resources |->
          ResourceDescriptor(IF r \in Machines THEN 1 ELSE 0, MaxCap, MaxCap,
                             100 * MaxCap, MaxCap, NodeLabels(r))]
  /\ \E cpu \in 1..MaxReq :
       task_map = [RegistryTasks EXCEPT !["t4"].cpu_cores = cpu]
  /\ labels_map = EmptyMap
  /\ knowledge_base = [m \in Machines |-> NoSample]
  /\ fatal = FALSE
  /\ last_call = NoCall
  /\ round = NoRound

NextTaskECs ==
  \/ \E t \in Tasks : AddTask(t) /\ UNCHANGED round
  \/ \E t \in Tasks : RemoveTask(t) /\ UNCHANGED round
  \/ \E t \in Tasks : QueryTaskECs(t)
  \/ TaskStateChange("t1") /\ UNCHANGED round

SpecTaskECs == InitTaskECs /\ [][NextTaskECs]_vars


(***************************************************************************)
(* The fixed arc classes, asked for at any point of a statistics pass over *)
(* machines with any max_pods and a sample each.                           *)
(***************************************************************************)
InitFixedArcs ==
  /\ \E mp \in [Machines -> 0..MaxPods] :
       resource_map =
         [r \in Resources |->
            ResourceDescriptor(IF r \in Machines THEN mp[r] ELSE 0,
                               MaxCap, MaxCap, 0, 0, NodeLabels(r))]
  /\ task_map = RoundTasks
  /\ labels_map = PodLabels(<<"t4">>)
  /\ knowledge_base = [m \in Machines |-> CHOOSE x \in Samples(m) : x.have]
  /\ FilledRegistry(resource_map, task_map, {"t1", "t2"})
  /\ fatal = FALSE
  /\ last_call = NoCall
  /\ round = [NoRound EXCEPT !.todo = Traversal]

NextFixedArcs ==
  \/ RoundPrepare
  \/ RoundGather
  \/ \E t \in Tasks :
       ArcQuery("TaskToUnscheduledAgg", t, TaskToUnscheduledAgg(t))
         /\ UNCHANGED round
  \/ \E t \in Tasks :
       ArcQuery("UnscheduledAggToSink", task_map[t].job_id,
                UnscheduledAggToSink(task_map[t].job_id)) /\ UNCHANGED round
  \/ \E t \in Tasks, pu \in PUs :
       ArcQuery("TaskToResourceNode", <<t, pu>>, TaskToResourceNode(t, pu))
         /\ UNCHANGED round
  \/ \E pu \in PUs :
       ArcQuery("LeafResourceNodeToSink", pu,
                LeafResourceNodeToSink(resource_map, pu)) /\ UNCHANGED round
  \/ \E t \in Tasks :
       ArcQuery("TaskContinuation", t, TaskContinuation(t)) /\ UNCHANGED round
  \/ \E t \in Tasks :
       ArcQuery("TaskPreemption", t, TaskPreemption(t)) /\ UNCHANGED round
  \/ \E t \in Tasks, ec \in TaskECs :
       ArcQuery("TaskToEquivClassAggregator", <<t, ec>>,
                TaskToEquivClassAggregator(t, ec)) /\ UNCHANGED round
  \/ \E ec \in MachineECsKnown :
       ArcQuery("EquivClassToResourceNode", <<ec, ec_to_machine_[ec]>>,
                EquivClassToResourceNode(ec, ec_to_machine_[ec]))
         /\ UNCHANGED round
  \/ \E t \in Tasks :
       ArcQuery("GetTaskPreferenceArcs", t, GetTaskPreferenceArcs(t))
         /\ UNCHANGED round

SpecFixedArcs == InitFixedArcs /\ [][NextFixedArcs]_vars


(***************************************************************************)
(* Properties of the registry (SpecRegistry).                              *)
(***************************************************************************)
\* C10: AddMachine(m) immediately followed by RemoveMachine(m), for a machine
\* that was not registered, leaves every registry map (the three machine maps
\* and the three task maps) as it was before AddMachine.
C10_AddThenRemoveRestores ==
  (last_call.op = "RemoveMachine" /\ last_call.pre # <<>> /\ ~fatal)
    => Registry = last_call.pre[1]

\* the pair has run for a machine with slots while another machine and a
\* task-EC are registered
C10_Witness ==
  /\ last_call.op = "RemoveMachine" /\ last_call.pre # <<>> /\ ~fatal
  /\ resource_map[last_call.arg].max_pods >= 1
  /\ ec_to_index_ # EmptyMap
  /\ ec_to_td_requirements # EmptyMap
  /\ task_resource_requirement_ # EmptyMap

\* the machine-ECs listed in ecs_for_machines_
ListedMachineECs ==
  UNION {SeqRange(ecs_for_machines_[m]) : m \in DOMAIN ecs_for_machines_}

\* C11: while no call has failed, the three machine maps agree: the ECs of
\* ec_to_machine_ and of ec_to_index_ are exactly the listed ones, the i-th EC
\* of a machine's list maps to that machine and to slot index i (from 0), a
\* registered machine has max_pods ECs, and no EC belongs to two lists
\* (so nothing of a removed machine is left).
C11_RegistryMapsConsistent ==
  ~fatal =>
    /\ DOMAIN ec_to_machine_ = ListedMachineECs
    /\ DOMAIN ec_to_index_ = ListedMachineECs
    /\ \A m \in DOMAIN ecs_for_machines_ :
         /\ Len(ecs_for_machines_[m]) = resource_map[m].max_pods
         /\ \A i \in 1..Len(ecs_for_machines_[m]) :
              /\ ec_to_machine_[ecs_for_machines_[m][i]] = m
              /\ ec_to_index_[ecs_for_machines_[m][i]] = i - 1
              /\ \A j \in 1..Len(ecs_for_machines_[m]) :
                   ecs_for_machines_[m][j] = ecs_for_machines_[m][i] => j = i
    /\ \A m1, m2 \in DOMAIN ecs_for_machines_ :
         m1 # m2 => SeqRange(ecs_for_machines_[m1])
                      \cap SeqRange(ecs_for_machines_[m2]) = {}

\* a machine with MaxPods slots has been removed while the other one, also
\* with slots, stays registered
C11_Witness ==
  /\ ~fatal /\ last_call.op = "RemoveMachine"
  /\ resource_map[last_call.arg].max_pods = MaxPods
  /\ \E m \in DOMAIN ecs_for_machines_ : Len(ecs_for_machines_[m]) = MaxPods

\* C12 as stated: AddMachine for a registered machine and AddTask for a
\* registered task complete without a failed check and leave the registry
\* as it was.
C12_DuplicateInsertIdempotent ==
  [][((last_call'.op = "AddMachine"
         /\ last_call'.arg \in DOMAIN ecs_for_machines_)
      \/ (last_call'.op = "AddTask"
            /\ last_call'.arg \in DOMAIN task_resource_requirement_))
       => (~fatal' /\ Registry' = Registry)]_vars

\* C12 amended: AddMachine for a registered machine and AddTask for a
\* registered task end in a failed CHECK.
C12_DuplicateInsertAborts ==
  [][((last_call'.op = "AddMachine"
         /\ last_call'.arg \in DOMAIN ecs_for_machines_)
      \/ (last_call'.op = "AddTask"
            /\ last_call'.arg \in DOMAIN task_resource_requirement_))
       => fatal']_vars

\* AddMachine has been called for a machine that was registered, with slots
C12_Witness ==
  /\ fatal /\ last_call.op = "AddMachine"
  /\ last_call.arg \in DOMAIN last_call.pre[1].machines.ecs_for_machines_
  /\ resource_map[last_call.arg].max_pods >= 1

\* C13: after AddMachine(m) the machine has min(max_pods, flag) machine-ECs,
\* for every value of the flag max_multi_arcs_for_cpu.
C13_SlotsCappedByFlag ==
  \A flag \in MultiArcFlags :
    (last_call.op = "AddMachine" /\ ~fatal)
      => Len(ecs_for_machines_[last_call.arg])
           = Min({resource_map[last_call.arg].max_pods, flag})

(***************************************************************************)
(* Properties of queries on a partly filled registry (SpecQueries).        *)
(***************************************************************************)
\* the call just made named a task, machine or EC the registry did not hold
NamesUnregistered(call) ==
  \/ call.op = "GetTaskEquivClasses"
       /\ call.arg \notin DOMAIN task_resource_requirement_
  \/ call.op = "RemoveTask" /\ call.arg \notin DOMAIN task_resource_requirement_
  \/ call.op = "RemoveMachine" /\ call.arg \notin DOMAIN ecs_for_machines_
  \/ call.op = "EquivClassToEquivClass"
       /\ (call.arg[1] \notin DOMAIN ec_resource_requirement_
           \/ call.arg[2] \notin DOMAIN ec_to_machine_)

ListsUnregistered(call) ==
  \/ call.op = "GetEquivClassToEquivClassesArcs"
       /\ call.arg \notin DOMAIN ec_resource_requirement_
  \/ call.op = "GetOutgoingEquivClassPrefArcs"
       /\ call.arg \notin DOMAIN ec_to_machine_

\* C17 as stated: every query or removal that names something the registry
\* does not hold aborts.
C17_UnknownAlwaysFatal ==
  [][(NamesUnregistered(last_call') \/ ListsUnregistered(last_call'))
       => fatal']_vars

\* C17 amended: GetTaskEquivClasses, EquivClassToEquivClass, RemoveMachine and
\* RemoveTask abort when they name something the registry does not hold;
\* GetEquivClassToEquivClassesArcs for an unknown task-EC and
\* GetOutgoingEquivClassPrefArcs for an unknown EC return an empty list
\* without aborting and leave the cost model as it was.
C17_UnknownFatalOrEmptyList ==
  [][/\ NamesUnregistered(last_call') => fatal'
     /\ ListsUnregistered(last_call')
          => /\ ~fatal'
             /\ cm_vars' = cm_vars
             /\ IF last_call'.op = "GetOutgoingEquivClassPrefArcs"
                THEN last_call'.ret = <<>>
                ELSE last_call'.ret.pref_ecs = <<>>]_vars

\* RemoveMachine has aborted for a machine that is not registered while the
\* other machine and a task-EC are
C17_Witness ==
  /\ fatal /\ last_call.op = "RemoveMachine"
  /\ last_call.arg \notin DOMAIN ecs_for_machines_
  /\ ecs_for_machines_ # EmptyMap
  /\ ec_resource_requirement_ # EmptyMap

\* C18: a task-EC that exists keeps its recorded request and its copy of the
\* representative task descriptor over every step: registry operations,
\* queries, pricing, and changes of the task in task_map.
C18_TaskECPinned ==
  [][\A ec \in DOMAIN ec_resource_requirement_ :
       /\ ec \in DOMAIN ec_resource_requirement_'
       /\ ec_resource_requirement_'[ec] = ec_resource_requirement_[ec]
       /\ ec \in DOMAIN ec_to_td_requirements'
       /\ ec_to_td_requirements'[ec] = ec_to_td_requirements[ec]]_vars

\* GetTaskEquivClasses has returned for a task whose EC was created by the
\* other task of the job, with another request, or by the same task in
\* another state
C18_Witness ==
  /\ last_call.op = "GetTaskEquivClasses" /\ ~fatal
  /\ last_call.ret[1] \in DOMAIN ec_to_td_requirements
  /\ ec_to_td_requirements[last_call.ret[1]] # task_map[last_call.arg]
  /\ ec_resource_requirement_[last_call.ret[1]]
       # task_resource_requirement_[last_call.arg]

\* C25: for every task-EC and every machine that has a priority record for
\* it, on each axis the task-EC has preferred terms for, the tracker's
\* min_score is at most the record's raw score, which is at most the
\* tracker's max_score; this includes machines flagged satisfy = FALSE and
\* rounds where no machine satisfied a preferred term.
C25_RawScoreWithinTracker ==
  \A ec \in DOMAIN ec_to_node_priority_scores
             \cap DOMAIN ec_to_max_min_priority_scores :
    \A m \in DOMAIN ec_to_node_priority_scores[ec] :
      LET rec == ec_to_node_priority_scores[ec][m]
          mm == ec_to_max_min_priority_scores[ec]
          td == ec_to_td_requirements[ec]
      IN /\ HasNodePreferred(td)
              => /\ mm.node_affinity_priority.min_score
                      <= rec.node_affinity_priority.score
                 /\ rec.node_affinity_priority.score
                      <= mm.node_affinity_priority.max_score
         /\ HasPodPreferred(td)
              => /\ mm.pod_affinity_priority.min_score
                      <= rec.pod_affinity_priority.score
                 /\ rec.pod_affinity_priority.score
                      <= mm.pod_affinity_priority.max_score

(***************************************************************************)
(* Properties of task-ECs (SpecTaskECs).                                   *)
(***************************************************************************)
PlainTask(t) == ~task_map[t].has_affinity /\ task_map[t].label_selectors = <<>>

\* C19: GetTaskEquivClasses returns one EC, the one its first call for the
\* task returned, whatever happened in between; affinity-bearing tasks of
\* one job are given the same EC; tasks with neither affinity nor selectors
\* are given the same EC exactly when their requests are equal.
C19_TaskECFunctionOfSignature ==
  /\ (last_call.op = "GetTaskEquivClasses" /\ ~fatal)
       => /\ Len(last_call.ret) = 1
          /\ last_call.ret = round.task_ecs[last_call.arg]
  /\ \A t, u \in DOMAIN round.task_ecs :
       /\ (/\ task_map[t].has_affinity /\ task_map[u].has_affinity
           /\ task_map[t].job_id = task_map[u].job_id)
            => round.task_ecs[t] = round.task_ecs[u]
       /\ (PlainTask(t) /\ PlainTask(u))
            => ((round.task_ecs[t] = round.task_ecs[u])
                 <=> (/\ task_map[t].cpu_cores = task_map[u].cpu_cores
                      /\ task_map[t].ram_cap = task_map[u].ram_cap))

\* every task has been asked for its EC, t1 again after its state changed
\* since its EC was created; t3 and t4 differ in request
C19_Witness ==
  /\ DOMAIN round.task_ecs = Tasks
  /\ last_call.op = "GetTaskEquivClasses" /\ ~fatal /\ last_call.arg = "t1"
  /\ ec_to_td_requirements[last_call.ret[1]] # task_map["t1"]
  /\ task_map["t3"].cpu_cores # task_map["t4"].cpu_cores

\* C31: the request recorded for a task-EC, which admission and pricing
\* use, equals the recorded request of the registered task that
\* GetTaskEquivClasses has just mapped to that EC, after any sequence of
\* AddTask, RemoveTask and GetTaskEquivClasses calls, also for
\* affinity-bearing tasks of one job with different requests and for an EC
\* whose first task was removed and registered again.
C31_ECRequestIsTaskRequest ==
  (last_call.op = "GetTaskEquivClasses" /\ ~fatal)
    => ec_resource_requirement_[last_call.ret[1]]
         = task_resource_requirement_[last_call.arg]

(***************************************************************************)
(* Properties of the fixed arc classes (SpecFixedArcs).                    *)
(***************************************************************************)
UnitArcOps ==
  {"UnscheduledAggToSink", "TaskToResourceNode", "TaskContinuation",
   "TaskPreemption", "TaskToEquivClassAggregator", "EquivClassToResourceNode"}

\* C20: at any point, TaskToUnscheduledAgg returns (2560000, 1, 0); the six
\* unit arc classes return (0, 1, 0); GetTaskPreferenceArcs returns the empty
\* list; LeafResourceNodeToSink(pu) returns (0, max_pods of the machine that
\* owns pu, 0).
C20_FixedArcClasses ==
  /\ last_call.op = "TaskToUnscheduledAgg"
       => last_call.ret = [cost |-> 2560000, capacity |-> 1, lower_bound |-> 0]
  /\ last_call.op \in UnitArcOps
       => last_call.ret = [cost |-> 0, capacity |-> 1, lower_bound |-> 0]
  /\ last_call.op = "GetTaskPreferenceArcs" => last_call.ret = <<>>
  /\ last_call.op = "LeafResourceNodeToSink"
       => last_call.ret =
            [cost |-> 0,
             capacity |-> resource_map[ParentOf(last_call.arg)].max_pods,
             lower_bound |-> 0]

\* the leaf arc of a PU of the two-PU machine has been asked for after the
\* statistics pass, when the machine's num_slots_below is not its max_pods
C20_Witness ==
  /\ last_call.op = "LeafResourceNodeToSink" /\ last_call.arg = "m2p1"
  /\ round.todo = <<>>
  /\ resource_map["m2"].max_pods = MaxPods
  /\ resource_map["m2"].num_slots_below # resource_map["m2"].max_pods

(***************************************************************************)
(* Properties of admission (SpecAdmission).                                *)
(***************************************************************************)
\* the machine can admit n replicas of req (cpu is compared in hundredths)
Admits(rd, req, n) ==
  /\ n * req.cpu_cores_ * 100 <= rd.avail_cpu
  /\ n * req.ram_cap_ <= rd.avail_ram

\* C1: a priced pair (e1, e2), e2 being slot k of machine m, gets capacity 1
\* if and only if m can admit k+1 replicas of req(e1), and capacity 0
\* otherwise.
C1_CapacityIffNextReplicaFits ==
  (last_call.op = "EquivClassToEquivClass" /\ ~fatal)
    => LET ec1 == last_call.arg[1]
           ec2 == last_call.arg[2]
           rd == resource_map[ec_to_machine_[ec2]]
       IN last_call.ret.arc.capacity =
            (IF Admits(rd, ec_resource_requirement_[ec1], ec_to_index_[ec2] + 1)
             THEN 1 ELSE 0)

\* the part of a preference list that belongs to machine m
MachinePart(pref_ecs, m) ==
  LET OfMachine(x) == x[2] = FriendlyName(m) IN SelectSeq(pref_ecs, OfMachine)

\* the largest n <= max_pods with n * req <= available
RoomFor(rd, req) ==
  CHOOSE n \in 0..rd.max_pods :
    /\ Admits(rd, req, n)
    /\ \A k \in (n + 1)..rd.max_pods : ~Admits(rd, req, k)

\* C2: for a task-EC with a recorded request, the listing contributes, for
\* every registered machine that passes the hard constraints, exactly its
\* slots 0..N-1 in increasing order, N being the largest n <= max_pods with
\* n * req <= available (nothing when N = 0), and nothing for a machine that
\* fails them.  The representative tasks of this specification carry node
\* constraints only.
C2_ListsSlotsThatFit ==
  (last_call.op = "GetEquivClassToEquivClassesArcs")
    => LET ec == last_call.arg
           req == ec_resource_requirement_[ec]
       IN \A m \in DOMAIN ecs_for_machines_ :
            MachinePart(last_call.ret.pref_ecs, m) =
              (IF SatisfiesNodeSelectorAndNodeAffinity(
                    resource_map[m], ec_to_td_requirements[ec])
               THEN [i \in 1..RoomFor(resource_map[m], req) |->
                       GetMachineEC(FriendlyName(m), i - 1)]
               ELSE <<>>)

\* a listing where m1 has room for some but not all of its slots, its
\* available cpu is fractional and m2 fails the node constraint
C2_Witness ==
  /\ last_call.op = "GetEquivClassToEquivClassesArcs"
  /\ last_call.arg = JobEC("j1")
  /\ Len(last_call.ret.pref_ecs) = 1
  /\ resource_map["m1"].max_pods = 2
  /\ resource_map["m1"].avail_cpu = 150


\* C14: infinity_ starts at omega_ * dimensions_ and never decreases; a cost
\* returned by EquivClassToEquivClass is at most infinity_ as the call leaves
\* it, and the call raises infinity_ to exactly the cost plus one when the
\* cost exceeds it, and leaves it alone otherwise.
C14_CostWithinInfinity ==
  /\ infinity_ = omega_ * dimensions_
  /\ [][/\ infinity_' >= infinity_
        /\ (last_call'.op = "EquivClassToEquivClass" /\ ~fatal')
             => /\ last_call'.ret.arc.cost <= infinity_'
                /\ infinity_' = IF last_call'.ret.arc.cost > infinity_
                                THEN last_call'.ret.arc.cost + 1
                                ELSE infinity_]_vars

\* a computed cost (no out-of-range conversion) has exceeded the initial
\* infinity_ and raised it
C14_Witness ==
  /\ last_call.op = "EquivClassToEquivClass" /\ ~fatal
  /\ last_call.ret.cv # <<>>
  /\ last_call.ret.arc.cost > omega_ * dimensions_
  /\ infinity_ = last_call.ret.arc.cost + 1

\* the descriptor of a machine whose available vector is what is left after
\* k replicas of req were admitted
AfterAdmitting(rd, req, k) ==
  [rd EXCEPT !.avail_cpu = @ - 100 * k * req.cpu_cores_,
             !.avail_ram = @ - k * req.ram_cap_]

\* what pricing (ec1, slot 0 of m) returns when m's descriptor is rd
PriceOfFirstSlot(ec1, m, rd) ==
  PriceArc([resource_map EXCEPT ![m] = rd], ec_resource_requirement_,
           ec_to_td_requirements, ec_to_machine_, ec_to_index_,
           ec_to_node_priority_scores, ec_to_max_min_priority_scores,
           infinity_, ec1, ecs_for_machines_[m][1])

\* C21: pricing (e1, e2), e2 being slot k of machine m, returns exactly
\* (cost 0, capacity 0, lower bound 0) when m's available cpu is below
\* k * req(e1).cpu or its available ram below k * req(e1).ram; otherwise it
\* returns capacity 1 and lower bound 0, and the cost is the one priced for
\* the post-admission vector available - k * req(e1), i.e. what slot 0 costs
\* on a machine that has that vector available (stated where the ram
\* fraction of that vector is representable).
C21_ZeroArcOrPostAdmissionCost ==
  (last_call.op = "EquivClassToEquivClass" /\ ~fatal)
    => LET ec1 == last_call.arg[1]
           m == ec_to_machine_[last_call.arg[2]]
           k == ec_to_index_[last_call.arg[2]]
           req == ec_resource_requirement_[ec1]
           rd == resource_map[m]
       IN IF \/ rd.avail_cpu < 100 * k * req.cpu_cores_
             \/ rd.avail_ram < k * req.ram_cap_
          THEN last_call.ret.arc = ArcDescriptor(0, 0, 0)
          ELSE /\ last_call.ret.arc.capacity = 1
               /\ last_call.ret.arc.lower_bound = 0
               /\ \E p \in {PriceOfFirstSlot(ec1, m, AfterAdmitting(rd, req, k))} :
                     p.wrapped \/ last_call.ret.arc.cost = p.arc.cost

\* slot 1 of a machine with a fractional available cpu has been priced with
\* capacity 1, at a cost that differs from the cost of slot 0
C21_Witness ==
  /\ last_call.op = "EquivClassToEquivClass" /\ ~fatal
  /\ ec_to_index_[last_call.arg[2]] = 1
  /\ resource_map[ec_to_machine_[last_call.arg[2]]].avail_cpu = 150
  /\ last_call.ret.arc.capacity = 1
  /\ last_call.ret.cv # <<>>
  /\ last_call.ret.arc.cost #
       PriceOfFirstSlot(last_call.arg[1], ec_to_machine_[last_call.arg[2]],
                        resource_map[ec_to_machine_[last_call.arg[2]]]).arc.cost

\* what pricing (ec1, ec2) returns in the current state
PriceNow(ec1, ec2) ==
  PriceArc(resource_map, ec_resource_requirement_, ec_to_td_requirements,
           ec_to_machine_, ec_to_index_, ec_to_node_priority_scores,
           ec_to_max_min_priority_scores, infinity_, ec1, ec2)

\* C26: with the machine stats fixed, the costs of the arcs from a task-EC
\* to the machine-ECs of one machine in its preference list are
\* non-decreasing in the slot index: the arc to a listed slot k costs at
\* least what the arc to every slot j < k costs, for every capacity,
\* available vector and request (compared where the conversions to int64_t
\* are in range).
C26_StaircaseNonDecreasing ==
  (last_call.op = "EquivClassToEquivClass" /\ ~fatal /\ last_call.ret.cv # <<>>)
    => LET ec1 == last_call.arg[1]
           m == ec_to_machine_[last_call.arg[2]]
           k == ec_to_index_[last_call.arg[2]]
       IN last_call.arg[2] \in
            SeqRange(MachineSlots(resource_map, ecs_for_machines_,
                                  ec_resource_requirement_[ec1], m))
            => \A j \in 0..(k - 1) :
                 \E p \in {PriceNow(ec1, ecs_for_machines_[m][j + 1])} :
                   p.wrapped \/ p.arc.cost <= last_call.ret.arc.cost

\* the EC the model gives a registered task
ECOfTask(t) == TaskEC(task_map[t], task_resource_requirement_[t])

\* a task of task-EC ec can be routed to the machine-EC slot in this round:
\* the slot is in ec's preference list and the arc is priced capacity 1
Routable(ec, slot) ==
  LET m == ec_to_machine_[slot]
  IN /\ SatisfiesNodeSelectorAndNodeAffinity(resource_map[m],
                                             ec_to_td_requirements[ec])
     /\ slot \in SeqRange(MachineSlots(resource_map, ecs_for_machines_,
                                       ec_resource_requirement_[ec], m))
     /\ PriceNow(ec, slot).arc.capacity = 1

\* C30: no over-commit within a round.  When an arc (e(t), slot) of a
\* preference list was priced with capacity 1, then for every other task u
\* routable to another slot of the same machine in the same round, the
\* requests of t and u together do not exceed the machine's available cpu
\* and ram, also when t and u belong to different task-ECs with different
\* requests.
C30_NoOverCommit ==
  (last_call.op = "EquivClassToEquivClass" /\ ~fatal)
    => \A t \in DOMAIN task_resource_requirement_ :
         (/\ last_call.arg[1] = ECOfTask(t)
          /\ last_call.ret.arc.capacity = 1
          /\ Routable(ECOfTask(t), last_call.arg[2]))
           => LET m == ec_to_machine_[last_call.arg[2]]
              IN \A u \in DOMAIN task_resource_requirement_ \ {t} :
                   \A slot \in SeqRange(ecs_for_machines_[m]) \ {last_call.arg[2]} :
                     (ECOfTask(u) \in DOMAIN ec_resource_requirement_
                      /\ Routable(ECOfTask(u), slot))
                       => /\ 100 * (task_resource_requirement_[t].cpu_cores_
                                    + task_resource_requirement_[u].cpu_cores_)
                               <= resource_map[m].avail_cpu
                          /\ task_resource_requirement_[t].ram_cap_
                               + task_resource_requirement_[u].ram_cap_
                               <= resource_map[m].avail_ram

(***************************************************************************)
(* Properties of a scheduling round (Spec).                                *)
(***************************************************************************)
\* C3: once the round has listed the preferences of every task-EC (here two,
\* both with preferred terms), pricing an arc from a task-EC to a machine-EC
\* of its preference list returns a descriptor and never ends in a fatal
\* check.
C3_PricingNeverFatal ==
  (/\ last_call.op = "EquivClassToEquivClass"
   /\ DOMAIN round.listed = TaskECs
   /\ last_call.arg[1] \in DOMAIN round.listed
   /\ last_call.arg[2] \in SeqRange(round.listed[last_call.arg[1]]))
    => ~fatal

\* the available vector of a descriptor
Available(rd) == <<rd.avail_cpu, rd.avail_ram>>

\* C4: at the end of a round's statistics pass, a machine the knowledge base
\* had no sample for, and its PUs, have the available vector the previous
\* round left them.
C4_NoSampleKeepsAvailable ==
  (round.todo = <<>> /\ round.start # <<>>)
    => \A m \in Machines :
         ~knowledge_base[m].have
           => \A r \in {m} \cup PUsOf(m) :
                Available(resource_map[r]) = Available(round.start[1][r])

\* the trackers of the task-ECs in S are as constructed
AllUnset(mm, S) == \A ec \in S \cap DOMAIN mm : mm[ec] = NewMinMaxScores

\* C5: after PrepareStats on a resource node no priority record exists and
\* every min/max tracker is UNSET; and at entry of
\* GetEquivClassToEquivClassesArcs the tracker of every task-EC the round has
\* not listed yet is UNSET, so that nothing of an earlier round is left.
C5_ScorerReset ==
  /\ (last_call.op = "PrepareStats" /\ IsResourceNode(last_call.arg))
       => /\ ec_to_node_priority_scores = EmptyMap
          /\ AllUnset(ec_to_max_min_priority_scores, TaskECs)
  /\ (last_call.op = "GetEquivClassToEquivClassesArcs")
       => AllUnset(last_call.ret.entry_min_max, TaskECs \ DOMAIN round.listed)

\* C15: since the last listing call, a pricing call for a pair (e1, e2) whose
\* e1 has been listed this round returns the arc (cost, capacity, lower
\* bound) that the first pricing call for the pair returned, whatever other
\* pairs were priced in between.
C15_RepeatedPricingSameArc ==
  (/\ last_call.op = "EquivClassToEquivClass" /\ ~fatal
   /\ last_call.arg[1] \in DOMAIN round.listed
   /\ last_call.arg \in DOMAIN round.priced)
    => last_call.ret.arc = round.priced[last_call.arg].first.arc

\* a pair whose pod-affinity score normalises to omega_ has been priced a
\* second time, and the pair of the other machine has been priced too
C15_Witness ==
  /\ last_call.op = "EquivClassToEquivClass" /\ ~fatal
  /\ last_call.arg \in DOMAIN round.priced
  /\ round.priced[last_call.arg].again
  /\ last_call.ret.arc.capacity = 1
  /\ last_call.ret.cv.pod_affinity_soft_cost_ = 0
  /\ \E pair \in DOMAIN round.priced : pair # last_call.arg

\* C16: when a round's statistics pass is over and the knowledge base had a
\* sample for every machine, num_slots_below of each machine equals its
\* max_pods.
C16_SlotsBelowIsMaxPods ==
  (round.todo = <<>> /\ \A m \in Machines : knowledge_base[m].have)
    => \A m \in Machines :
         resource_map[m].num_slots_below = resource_map[m].max_pods

\* the raw node-affinity score of machine m for task-EC ec: the weights of
\* the preferred terms m matches
RawNodeScore(ec, m) ==
  NodeAffinitySumOfWeights(resource_map[m],
                           ec_to_td_requirements[ec].affinity.node_preferred)

\* the largest raw score among the machines scored for ec in this round
RoundMaxNodeScore(ec) ==
  LET scored == {RawNodeScore(ec, m) :
                   m \in {x \in DOMAIN ecs_for_machines_ :
                            SatisfiesNodeSelectorAndNodeAffinity(
                              resource_map[x], ec_to_td_requirements[ec])}}
  IN CHOOSE x \in scored : \A y \in scored : y <= x

\* C22: in every round, for a task-EC with preferred node-affinity terms, a
\* priced arc to a listed machine has node_affinity_soft_cost omega_ when the
\* machine's raw score is 0, and omega_ - trunc((raw / max) * omega_)
\* otherwise, max being the largest raw score among the machines scored for
\* the EC in the current round.
C22_NodeAffinityNormalisedByRoundMax ==
  (/\ last_call.op = "EquivClassToEquivClass" /\ ~fatal
   /\ last_call.arg[1] \in DOMAIN round.listed
   /\ last_call.arg[2] \in SeqRange(round.listed[last_call.arg[1]])
   /\ HasNodePreferred(ec_to_td_requirements[last_call.arg[1]]))
    => LET ec == last_call.arg[1]
           raw == RawNodeScore(ec, ec_to_machine_[last_call.arg[2]])
       IN last_call.ret.cv.node_affinity_soft_cost_ =
            (IF raw = 0 THEN omega_
             ELSE omega_ - TruncDiv(raw * omega_, RoundMaxNodeScore(ec)))

\* C23: when a pricing call normalises the pod-affinity score of a pair
\* (its record had no final score yet), the emitted pod_affinity_soft_cost
\* is omega_ - final with final = trunc(((raw - min) / (max - min)) * omega_),
\* the fraction being real-valued, when the tracker's max exceeds its min,
\* and final = 0 when they are equal.
C23_PodAffinityRealFraction ==
  (/\ last_call.op = "EquivClassToEquivClass" /\ ~fatal
   /\ last_call.arg \in DOMAIN round.priced
   /\ ~round.priced[last_call.arg].again
   /\ last_call.ret.arc.capacity = 1
   /\ HasPodPreferred(ec_to_td_requirements[last_call.arg[1]]))
    => LET ec == last_call.arg[1]
           m == ec_to_machine_[last_call.arg[2]]
           raw == ec_to_node_priority_scores[ec][m].pod_affinity_priority.score
           mm == ec_to_max_min_priority_scores[ec].pod_affinity_priority
           final == IF mm.max_score > mm.min_score
                    THEN TruncDiv((raw - mm.min_score) * omega_,
                                  mm.max_score - mm.min_score)
                    ELSE 0
       IN /\ ec_to_node_priority_scores[ec][m].pod_affinity_priority.final_score
               = final
          /\ last_call.ret.cv.pod_affinity_soft_cost_ = omega_ - final

\* C27: for every arc priced with capacity 1, each of the four cost
\* dimensions lies in [0, omega_] and the flattened cost in
\* [0, 4 * omega_], for every machine state the statistics pass produces,
\* also from samples whose capacity differs from the descriptor's.
C27_DimensionsWithinOmega ==
  (/\ last_call.op = "EquivClassToEquivClass" /\ ~fatal
   /\ last_call.ret.arc.capacity = 1)
    => /\ last_call.ret.arc.cost \in 0..(4 * omega_)
       /\ last_call.ret.cv # <<>>
            => /\ last_call.ret.cv.cpu_mem_cost_ \in 0..omega_
               /\ last_call.ret.cv.balanced_res_cost_ \in 0..omega_
               /\ last_call.ret.cv.node_affinity_soft_cost_ \in 0..omega_
               /\ last_call.ret.cv.pod_affinity_soft_cost_ \in 0..omega_

\* the sum of a field of the descriptors of the resources in S
RECURSIVE SumBelow(_, _)
SumBelow(field, S) ==
  IF S = {} THEN 0
  ELSE LET r == CHOOSE x \in S : TRUE
       IN resource_map[r][field] + SumBelow(field, S \ {r})

\* C28: when a statistics pass is over (PrepareStats on every resource node,
\* GatherStats once per PU and once per machine-PU pair), every PU of a
\* machine with a sample has available cpu = capacity * (1 - utilisation)
\* of its core in the sample and num_running_tasks_below = the number of
\* its running tasks, and the machine's available cpu and
\* num_running_tasks_below are the sums over its PUs, in the first round
\* and in every later one.
C28_StatsAreSumsOverPUs ==
  (round.todo = <<>>)
    => \A m \in Machines :
         knowledge_base[m].have
           => /\ \A pu \in PUsOf(m) :
                   LET core == knowledge_base[m].cpus_stats[CoreIdOf(pu) + 1]
                   IN /\ resource_map[pu].avail_cpu =
                           core.cpu_capacity * (100 - core.cpu_utilization)
                      /\ resource_map[pu].num_running_tasks_below =
                           Cardinality(CurrentRunningTasks(task_map, pu))
              /\ resource_map[m].avail_cpu = SumBelow("avail_cpu", PUsOf(m))
              /\ resource_map[m].num_running_tasks_below =
                   SumBelow("num_running_tasks_below", PUsOf(m))

\* a second or later pass is over: m1's PU, half used, has one core's half
\* available and so has m1; m2 has the sum of its two PUs and one running
\* task below
C28_Witness ==
  /\ round.todo = <<>> /\ round.start # <<>>
  /\ \A m \in Machines : knowledge_base[m].have /\ round.start[1][m].avail_cpu > 0
  /\ resource_map["m1p0"].avail_cpu = 100
  /\ resource_map["m1"].avail_cpu = 100
  /\ resource_map["m2"].avail_cpu = 600
  /\ resource_map["m2"].num_running_tasks_below = 1

(***************************************************************************)
(* Properties of pod affinity (SpecAffinity).                              *)
(***************************************************************************)
\* C6: whenever a pod (anti-)affinity term of a task is evaluated, the
\* namespaces whose pods may match are exactly the task's namespace when the
\* term lists none, and exactly the listed ones otherwise, whatever was
\* evaluated before.
C6_AllowedNamespacesOfTheTerm ==
  (last_call.op = "GetEquivClassToEquivClassesArcs")
    => \A entry \in last_call.ret.log : entry.admitted = entry.named

\* the task's only hard constraint is one required anti-affinity term with
\* the one expression (key, In, values)
OnlyAntiAffinityIn(td) ==
  /\ td.has_affinity
  /\ td.label_selectors = <<>>
  /\ td.affinity.node_required = <<>>
  /\ td.affinity.pod_required = <<>>
  /\ Len(td.affinity.anti_required) = 1
  /\ Len(td.affinity.anti_required[1].matchexpressions) = 1
  /\ td.affinity.anti_required[1].matchexpressions[1].operator_ = "In"

\* machine m hosts a RUNNING task carrying (key, v) for a v of the term's
\* values, in a namespace allowed for the term
HostsMatchingPod(m, td, term) ==
  \E u \in TasksWithLabel(labels_map, term.matchexpressions[1]) :
    /\ task_map[u].state = "RUNNING"
    /\ MachineResIDForResource(task_map[u].scheduled_to_resource) = m
    /\ task_map[u].task_namespace \in TermNamespaces(td, term)

\* C7: for a task whose hard constraint is a required anti-affinity term
\* (key, In, values), a machine hosting a RUNNING task with a matching label
\* in an allowed namespace contributes no machine-EC to the listing, and a
\* machine hosting no such task is not excluded (every machine here has a
\* slot with room for the request).
C7_AntiAffinityExcludesExactlyHosts ==
  (/\ last_call.op = "GetEquivClassToEquivClassesArcs"
   /\ OnlyAntiAffinityIn(ec_to_td_requirements[last_call.arg]))
    => LET td == ec_to_td_requirements[last_call.arg] IN
       \A m \in DOMAIN ecs_for_machines_ :
         (MachinePart(last_call.ret.pref_ecs, m) = <<>>)
           <=> HostsMatchingPod(m, td, td.affinity.anti_required[1])

\* the recorded descriptors without their preferred (soft) terms
WithoutSoftTerms(tds) ==
  [ec \in DOMAIN tds |->
     [tds[ec] EXCEPT !.affinity.node_preferred = <<>>,
                     !.affinity.pod_preferred = <<>>,
                     !.affinity.anti_preferred = <<>>]]

\* C8: the set of machine-ECs a listing returns is the one it returns, from
\* the same state and visiting the machines in the same order, when the
\* representative tasks carry no preferred terms.
C8_SoftTermsNeverExclude ==
  (last_call.op = "GetEquivClassToEquivClassesArcs")
    => SeqRange(last_call.ret.pref_ecs) =
         SeqRange(PrefArcs(resource_map, task_map, labels_map,
                           ecs_for_machines_, ec_resource_requirement_,
                           WithoutSoftTerms(ec_to_td_requirements), EmptyMap,
                           last_call.ret.entry_min_max,
                           last_call.ret.entry_namespaces, last_call.arg,
                           last_call.ret.order).pref_ecs)

\* C24: a pod-affinity match expression (key, NotIn, values) evaluated
\* against machine m is satisfied if and only if no RUNNING task on m in an
\* admitted namespace carries (key, v) for a v of values, and some task
\* carrying the key is in an admitted namespace; a RUNNING task on m of a
\* namespace that is not admitted does not make it fail.
C24_NotInLooksAtAdmittedNamespaces ==
  (last_call.op = "GetEquivClassToEquivClassesArcs")
    => \A entry \in last_call.ret.log :
         (/\ ~entry.anti
          /\ Len(entry.matchexpressions) = 1
          /\ entry.matchexpressions[1].operator_ = "NotIn")
           => entry.sat =
                (/\ ~ \E u \in TasksWithLabel(labels_map,
                                               entry.matchexpressions[1]) :
                       /\ RunningOnMachine(task_map, u, entry.machine)
                       /\ task_map[u].task_namespace \in entry.admitted
                 /\ \E u \in TasksWithKey(labels_map,
                                           entry.matchexpressions[1]) :
                      task_map[u].task_namespace \in entry.admitted)

\* no preferred term of the task has a weight
NoWeightedTerm(td) ==
  \A kind \in {"node_preferred", "pod_preferred", "anti_preferred"} :
    \A i \in DOMAIN td.affinity[kind] : td.affinity[kind][i].weight = 0

\* C29: after the machines were scored for a task-EC whose preferred terms
\* (node-affinity, pod-affinity, pod-anti-affinity) all have weight zero or
\* are absent, every machine's raw score is 0 on both axes, also where the
\* machine matches a zero-weight term, and the task-EC's min/max tracker
\* has received no entry: min_score and max_score are UNSET on both axes.
C29_ZeroWeightLeavesNoTrace ==
  (/\ last_call.op = "GetEquivClassToEquivClassesArcs" /\ ~fatal
   /\ last_call.arg \in DOMAIN ec_to_td_requirements
   /\ NoWeightedTerm(ec_to_td_requirements[last_call.arg]))
    => LET ec == last_call.arg
       IN /\ ec \in DOMAIN ec_to_node_priority_scores
               => \A m \in DOMAIN ec_to_node_priority_scores[ec] :
                    LET rec == ec_to_node_priority_scores[ec][m]
                    IN /\ rec.node_affinity_priority.score = 0
                       /\ rec.pod_affinity_priority.score = 0
          /\ ec \in DOMAIN ec_to_max_min_priority_scores
               => ec_to_max_min_priority_scores[ec] = NewMinMaxScores

\* the label index without the tasks that are not RUNNING
WithoutNonRunning(lm, tm) ==
  [k \in DOMAIN lm |->
     [v \in DOMAIN lm[k] |->
        SelectSeq(lm[k][v], LAMBDA t : tm[t].state = "RUNNING")]]

\* C9: every term evaluation of a listing returns what it returns when the
\* tasks that are not RUNNING are removed from the label index: for all four
\* operators only RUNNING tasks contribute.
C9_OnlyRunningTasksContribute ==
  (last_call.op = "GetEquivClassToEquivClassesArcs")
    => \A entry \in last_call.ret.log :
         entry.sat =
           (IF entry.anti
            THEN SatisfiesPodAntiAffinityMatchExpressions(
                   task_map, WithoutNonRunning(labels_map, task_map),
                   entry.admitted, entry.machine, entry.matchexpressions)
            ELSE SatisfiesPodAffinityMatchExpressions(
                   task_map, WithoutNonRunning(labels_map, task_map),
                   entry.admitted, entry.machine, entry.matchexpressions))


\* what the listing just made would have left in the scorer, and returned,
\* had machine x not been registered
ListedWithout(x) ==
  PrefArcs(resource_map, task_map, labels_map,
           [m \in DOMAIN ecs_for_machines_ \ {x} |-> ecs_for_machines_[m]],
           ec_resource_requirement_, ec_to_td_requirements, EmptyMap,
           last_call.ret.entry_min_max, last_call.ret.entry_namespaces,
           last_call.arg, SelectSeq(last_call.ret.order, LAMBDA m : m # x))

\* C32: machines excluded by a hard constraint do not influence costs.
\* After the first listing of a task-EC e, for every machine x that has
\* room for e's request and was skipped (it fails the node selector or
\* required node affinity, or the required pod affinity / anti-affinity),
\* every arc from e to a machine-EC listed with and without x costs what it
\* would cost had x not been in the cluster; and the node-affinity max of e,
\* once set, is the raw score of a machine in e's preference list.
C32_SkippedMachinesDoNotInfluenceCosts ==
  (/\ last_call.op = "GetEquivClassToEquivClassesArcs" /\ ~fatal
   /\ last_call.arg \in DOMAIN ec_resource_requirement_
   /\ last_call.arg \notin DOMAIN last_call.ret.entry_min_max)
    => LET ec == last_call.arg
           req == ec_resource_requirement_[ec]
       IN /\ \A x \in DOMAIN ecs_for_machines_ :
               (/\ MachinePart(last_call.ret.pref_ecs, x) = <<>>
                /\ MachineSlots(resource_map, ecs_for_machines_, req, x) # <<>>)
                 => \E r \in {ListedWithout(x)} :
                      \A slot \in SeqRange(r.pref_ecs)
                                   \cap SeqRange(last_call.ret.pref_ecs) :
                        PriceNow(ec, slot).arc.cost =
                          PriceArc(resource_map, ec_resource_requirement_,
                                   ec_to_td_requirements, ec_to_machine_,
                                   ec_to_index_, r.nps, r.mm, infinity_,
                                   ec, slot).arc.cost
          /\ (/\ ec \in DOMAIN ec_to_max_min_priority_scores
              /\ ec_to_max_min_priority_scores[ec]
                   .node_affinity_priority.max_score # UNSET)
               => \E m \in DOMAIN ecs_for_machines_ :
                    /\ MachinePart(last_call.ret.pref_ecs, m) # <<>>
                    /\ ec_to_node_priority_scores[ec][m]
                         .node_affinity_priority.score =
                       ec_to_max_min_priority_scores[ec]
                         .node_affinity_priority.max_score

=============================================================================
